---- MODULE Spec2Model ----
(***************************************************************************)
(* fswatch: a crit-bit path index (tree.go), the recursive loader          *)
(* (loadImpl), the inotify backend (load/unload/close/run/handle), the     *)
(* calls and the teardown of the Windows backend, and the public read API  *)
(* (Get/Traverse).                                                         *)
(*                                                                         *)
(* Paths are sequences of bytes.  An info object lives in a heap and is    *)
(* referred to by its id, as the Go code refers to it by pointer: the tree *)
(* and the fd map share info objects.                                      *)
(***************************************************************************)
EXTENDS Integers, Sequences, FiniteSets, TLC

(***************************************************************************)
(* Bytes and paths                                                         *)
(***************************************************************************)
\* os.PathSeparator, '/'
SEP == 47
\* '.'
DOT == 46
\* '~'
TILDE == 126

\* "/t"
T == <<47, 116>>
\* "/t/a"
Ta == <<47, 116, 47, 97>>
\* "/t/a/f"
Taf == <<47, 116, 47, 97, 47, 102>>
\* "/t/a/l"
Tal == <<47, 116, 47, 97, 47, 108>>
\* "/t/a/d"
Tad == <<47, 116, 47, 97, 47, 100>>
\* "/t/a/d/x"
Tadx == <<47, 116, 47, 97, 47, 100, 47, 120>>
\* "/t/a/d/x/y"
Tadxy == <<47, 116, 47, 97, 47, 100, 47, 120, 47, 121>>
\* "/t/a.b"
Tadotb == <<47, 116, 47, 97, 46, 98>>
\* "/t/ab"
Tab == <<47, 116, 47, 97, 98>>
\* "/t/.h"
Th == <<47, 116, 47, 46, 104>>
\* "/u"
U == <<47, 117>>

\* the paths that are directories when they exist
DirPaths == {T, Ta, Tad, Tadx, Tab, U}

\* the paths that are symbolic links to a target that does not exist
Links == {Tal}

\* the paths of a directory tree that appears inside "/t/a"
Deep == {Tad, Tadx, Tadxy}

\* s is a prefix of p
IsPrefix(s, p) == Len(s) <= Len(p) /\ SubSeq(p, 1, Len(s)) = s

\* p is root or lies below root: root, or prefixed by root + separator
InSubtree(root, p) == p = root \/ IsPrefix(root \o <<SEP>>, p)

\* filepath.Split(path) directory part without the trailing separator
RECURSIVE LastSep(_, _)
LastSep(p, i) == IF i = 0 THEN 0 ELSE IF p[i] = SEP THEN i ELSE LastSep(p, i - 1)

Parent(p) == SubSeq(p, 1, LastSep(p, Len(p)) - 1)

\* filepath.Clean(path) for paths without "..", "//" and "/./": trailing
\* separators and leading "./" go, the empty path becomes "."
RECURSIVE Clean(_)
Clean(p) ==
    IF p = <<>> THEN <<DOT>>
    ELSE IF Len(p) > 1 /\ p[Len(p)] = SEP THEN Clean(SubSeq(p, 1, Len(p) - 1))
    ELSE IF Len(p) >= 2 /\ p[1] = DOT /\ p[2] = SEP THEN Clean(SubSeq(p, 3, Len(p)))
    ELSE p

\* filepath.Base(path)
Base(p) == SubSeq(p, LastSep(p, Len(p)) + 1, Len(p))

(***************************************************************************)
(* Bit operations on bytes                                                 *)
(***************************************************************************)
\* ch & bit != 0, for a single-bit mask
BitSet(ch, bit) == (ch \div bit) % 2 = 1

RECURSIVE XorFrom(_, _, _)
XorFrom(a, b, bit) ==
    IF bit > 128 THEN 0
    ELSE (IF BitSet(a, bit) # BitSet(b, bit) THEN bit ELSE 0) + XorFrom(a, b, 2 * bit)

\* a ^ b
Xor(a, b) == XorFrom(a, b, 1)

RECURSIVE HighBitFrom(_, _)
HighBitFrom(x, bit) == IF bit <= x THEN bit ELSE HighBitFrom(x, bit \div 2)

\* bit |= bit>>1; bit |= bit>>2; bit |= bit>>4; bit &^ (bit>>1): the highest set bit
HighBit(x) == HighBitFrom(x, 128)

(***************************************************************************)
(* The crit-bit tree.  A ref is NilRef, a leaf [info |-> id] or a node     *)
(* [off, bit, child].  h is the heap the ids refer to.                     *)
(***************************************************************************)
NilRef == [nil |-> TRUE]

Leaf(i) == [info |-> i]

Node(off, bit, c0, c1) == [off |-> off, bit |-> bit, child |-> <<c0, c1>>]

IsNil(r) == "nil" \in DOMAIN r

IsNode(r) == "child" \in DOMAIN r

\* the bytes of a path as they are
replaceSepNot(ch) == ch

\* replaceSep(c): the separator sorts before every other byte
replaceSep(ch) == IF ch = SEP THEN 1 ELSE ch

\* node.dir(key): 0 or 1
dir(n, key) ==
    IF n.off < Len(key) /\ BitSet(replaceSep(key[n.off + 1]), n.bit) THEN 1 ELSE 0

\* a slot of the tree is named by the directions that lead to it from t.root
RECURSIVE SubAt(_, _)
SubAt(r, ptr) == IF ptr = <<>> THEN r ELSE SubAt(r.child[Head(ptr) + 1], Tail(ptr))

RECURSIVE ReplaceAt(_, _, _)
ReplaceAt(r, ptr, v) ==
    IF ptr = <<>> THEN v
    ELSE [r EXCEPT !.child[Head(ptr) + 1] = ReplaceAt(r.child[Head(ptr) + 1], Tail(ptr), v)]

\* "walk for best member": the leaf the key leads to
RECURSIVE Best(_, _)
Best(r, key) == IF IsNode(r) THEN Best(r.child[dir(r, key) + 1], key) ELSE r.info

\* tree.get: the id stored at path, or 0
get(t, h, path) ==
    LET Found(i) == IF path # h[i].path THEN 0 ELSE i
    IN IF IsNil(t) THEN 0 ELSE Found(Best(t, path))

\* the first offset (0-based) at which key and the stored path differ, as
\* tree.insert finds it: [found, off, ch, bit]
RECURSIVE Differ(_, _, _)
Differ(key, stored, off) ==
    IF off < Len(key)
    THEN LET ch    == IF off < Len(stored) THEN replaceSep(stored[off + 1]) ELSE 0
             keych == replaceSep(key[off + 1])
         IN IF ch # keych
            THEN [found |-> TRUE, off |-> off, ch |-> ch, bit |-> Xor(ch, keych)]
            ELSE Differ(key, stored, off + 1)
    ELSE IF off < Len(stored)
         THEN [found |-> TRUE, off |-> off, ch |-> replaceSep(stored[off + 1]),
               bit |-> replaceSep(stored[off + 1])]
         ELSE [found |-> FALSE, off |-> off, ch |-> 0, bit |-> 0]

\* "walk for best insertion node": the slot the new node goes into
RECURSIVE InsertSlot(_, _, _, _, _)
InsertSlot(t, ptr, key, off, bit) ==
    LET p == SubAt(t, ptr) IN
    IF ~IsNode(p) THEN ptr
    ELSE IF p.off > off \/ (p.off = off /\ p.bit < bit) THEN ptr
    ELSE InsertSlot(t, Append(ptr, dir(p, key)), key, off, bit)

\* an insert that never reports the path as stored
insertAgain(t, h, i) ==
    LET key == h[i].path
        Put(d, bit, wp, ndir) ==
            ReplaceAt(t, wp, IF ndir = 1 THEN Node(d.off, bit, Leaf(i), SubAt(t, wp))
                                         ELSE Node(d.off, bit, SubAt(t, wp), Leaf(i)))
        Place(d, bit) ==
            [tree |-> Put(d, bit, InsertSlot(t, <<>>, key, d.off, bit),
                          IF BitSet(d.ch, bit) THEN 1 ELSE 0),
             dup  |-> 0]
        Differs(b, d) == IF ~d.found THEN [tree |-> t, dup |-> 0] ELSE Place(d, HighBit(d.bit))
        Found(b) == Differs(b, Differ(key, h[b].path, 0))
    IN IF IsNil(t) THEN [tree |-> Leaf(i), dup |-> 0] ELSE Found(Best(t, key))

\* tree.insert of info id i: [tree, dup], dup the id already stored at the path or 0
insert(t, h, i) ==
    LET key == h[i].path
        Put(d, bit, wp, ndir) ==
            ReplaceAt(t, wp, IF ndir = 1 THEN Node(d.off, bit, Leaf(i), SubAt(t, wp))
                                         ELSE Node(d.off, bit, SubAt(t, wp), Leaf(i)))
        Place(d, bit) ==
            [tree |-> Put(d, bit, InsertSlot(t, <<>>, key, d.off, bit),
                          IF BitSet(d.ch, bit) THEN 1 ELSE 0),
             dup  |-> 0]
        Differs(b, d) == IF ~d.found THEN [tree |-> t, dup |-> b] ELSE Place(d, HighBit(d.bit))
        Found(b) == Differs(b, Differ(key, h[b].path, 0))
    IN IF IsNil(t) THEN [tree |-> Leaf(i), dup |-> 0] ELSE Found(Best(t, key))

\* the ids below p, right to left
RECURSIVE deliterSwapped(_)
deliterSwapped(p) ==
    IF IsNode(p) THEN deliterSwapped(p.child[2]) \o deliterSwapped(p.child[1]) ELSE <<p.info>>

\* tree.deliter: the ids below p, left to right
RECURSIVE deliter(_)
deliter(p) ==
    IF IsNode(p) THEN deliter(p.child[1]) \o deliter(p.child[2]) ELSE <<p.info>>

\* a nil *ref
NilPtr == <<2>>

\* first loop of deleteAll: [leaf, wp, dir]
RECURSIVE DelFind(_, _, _, _, _)
DelFind(t, root, ptr, wp, d) ==
    LET At(p) == IF IsNode(p) THEN DelFind(t, root, Append(ptr, dir(p, root)), ptr, dir(p, root))
                 ELSE [leaf |-> p.info, wp |-> wp, dir |-> d]
    IN At(SubAt(t, ptr))

\* second loop of deleteAll: [leaf, top, wp, dir]
RECURSIVE DelTop(_, _, _, _, _, _)
DelTop(t, root, ptr, top, wp, d) ==
    LET At(p) ==
            IF IsNode(p)
            THEN IF p.off < Len(root)
                 THEN DelTop(t, root, Append(ptr, d), Append(ptr, d), ptr, dir(p, root))
                 ELSE DelTop(t, root, Append(ptr, d), top, wp, d)
            ELSE [leaf |-> p.info, top |-> top, wp |-> wp, dir |-> d]
    IN At(SubAt(t, ptr))

\* tree.deleteAll(root, f): [tree, list], list the ids handed to f, in order
deleteAll(t, h, root) ==
    LET \* the slot wp takes the sibling of the leaf: "*wp = wp.node.child[1-dir]"
        Unlink(r, wp, d) ==
            IF wp = NilPtr THEN NilRef ELSE ReplaceAt(r, wp, SubAt(r, wp).child[(1 - d) + 1])
        Rest(a, t1, b) ==
            IF ~IsPrefix(root \o <<SEP>>, h[b.leaf].path) THEN [tree |-> t1, list |-> <<a.leaf>>]
            ELSE [tree |-> Unlink(t1, b.wp, b.dir),
                  list |-> <<a.leaf>> \o deliter(SubAt(t1, b.top))]
        Below(a, t1) ==
            IF ~h[a.leaf].isDir \/ IsNil(t1) THEN [tree |-> t1, list |-> <<a.leaf>>]
            ELSE Rest(a, t1, DelTop(t1, root \o <<SEP>>, a.wp, a.wp, NilPtr, a.dir))
        Found(a) ==
            IF root # h[a.leaf].path THEN [tree |-> t, list |-> <<>>]
            ELSE Below(a, Unlink(t, a.wp, a.dir))
    IN IF IsNil(t) THEN [tree |-> t, list |-> <<>>]
       ELSE Found(DelFind(t, root, <<>>, NilPtr, 0))

\* the search of tree.walk for the subtree of root + separator: [leaf, top]
RECURSIVE WalkTop(_, _, _)
WalkTop(p, top, root) ==
    LET Step(np) == WalkTop(np, IF p.off < Len(root) THEN np ELSE top, root)
    IN IF IsNode(p) THEN Step(p.child[dir(p, root) + 1])
       ELSE [leaf |-> p.info, top |-> top]

\* a Skips loop that finds no skip path
SkippedNever(skips, path) == FALSE

\* the test of walkiter's Skips loop
Skipped(skips, path) ==
    \E k \in 1..Len(skips) : Len(skips[k]) <= Len(path) /\ IsPrefix(skips[k], path)

\* walkiter(p, f, skips): [seen, err, skip]; S holds the paths for which f
\* returns SkipDir, seen the paths handed to f so far, err is "" for nil,
\* "skip" for a skip value (the path in skip) and "SkipDir" for that error
RECURSIVE walkiter(_, _, _, _, _)
walkiter(p, h, S, skips, seen) ==
    LET Second(r0, r1) ==
            IF r0.err = "SkipDir" THEN r0
            ELSE IF r1.err = "SkipDir" THEN r1
            ELSE [seen |-> r1.seen, err |-> "", skip |-> <<>>]
        First(r0) ==
            Second(r0, walkiter(p.child[2], h, S,
                                IF r0.err = "skip" THEN Append(skips, r0.skip) ELSE skips,
                                r0.seen))
        Visit(path) ==
            IF Skipped(skips, path) \/ "ignored" \in h[p.info].flags
            THEN [seen |-> seen, err |-> "", skip |-> <<>>]
            ELSE IF path \in S
                 THEN IF h[p.info].isDir
                      THEN [seen |-> Append(seen, path), err |-> "skip", skip |-> path \o <<SEP>>]
                      ELSE [seen |-> Append(seen, path), err |-> "SkipDir", skip |-> <<>>]
                 ELSE [seen |-> Append(seen, path), err |-> "", skip |-> <<>>]
    IN IF IsNode(p) THEN First(walkiter(p.child[1], h, S, skips, seen))
       ELSE Visit(h[p.info].path)

\* tree.walk(root, f): [seen, err]
walk(t, h, root, S) ==
    LET Done(r) == [seen |-> r.seen, err |-> IF r.err = "SkipDir" THEN "SkipDir" ELSE ""]
        Below(a) ==
            IF ~IsPrefix(root \o <<SEP>>, h[a.leaf].path) THEN [seen |-> <<root>>, err |-> ""]
            ELSE Done(walkiter(a.top, h, S, <<>>, <<root>>))
        Root(fi) ==
            IF fi = 0 \/ "ignored" \in h[fi].flags THEN [seen |-> <<>>, err |-> "ErrNotExist"]
            ELSE IF ~h[fi].isDir \/ root \in S
                 THEN [seen |-> <<root>>, err |-> IF root \in S THEN "SkipDir" ELSE ""]
            ELSE Below(WalkTop(t, t, root \o <<SEP>>))
    IN Root(get(t, h, root))

\* the ids stored in the tree
Ids(t) == IF IsNil(t) THEN {} ELSE LET In(s) == {s[k] : k \in 1..Len(s)} IN In(deliter(t))

(***************************************************************************)
(* Heap addresses are not observable: after every step the info objects    *)
(* are renumbered, those of the tree in tree order, then those that only   *)
(* the fd map still refers to, in fd order.                                *)
(***************************************************************************)
RECURSIVE MapTree(_, _)
MapTree(r, f) ==
    IF IsNil(r) THEN r
    ELSE IF IsNode(r) THEN Node(r.off, r.bit, MapTree(r.child[1], f), MapTree(r.child[2], f))
    ELSE Leaf(f[r.info])

RECURSIVE StaleSeq(_, _, _, _)
StaleSeq(fm, wd, maxwd, seen) ==
    IF wd > maxwd THEN <<>>
    ELSE IF fm[wd] = 0 \/ fm[wd] \in seen THEN StaleSeq(fm, wd + 1, maxwd, seen)
    ELSE <<fm[wd]>> \o StaleSeq(fm, wd + 1, maxwd, seen \cup {fm[wd]})

(***************************************************************************)
(* State                                                                   *)
(***************************************************************************)
VARIABLES
    tree,      \* watcher.tree.root
    heap,      \* the info objects, by id
    fdmap,     \* watcher.fdmap: watch descriptor -> info id, 0 when absent
    wfd,       \* watcher.fd: 1 while open, -1 once closed
    signal,    \* number of functions waiting in the watcher.signal channel
    fs,        \* the paths that exist in the file system
    kw,        \* the kernel's inotify watches, by watch descriptor
    kq,        \* the kernel's queue of inotify events not yet read
    dpc,       \* where the run goroutine is: "read", "handle", "teardown", "exited"
    buf,       \* the events of the last read that run has not handled yet
    cpc,       \* where the calling goroutine is: "idle" or "closeSend"
    ret,       \* the last call of the caller and what it returned
    events,    \* what the last step handed to Context.Handle, in order
    errors,    \* what the last step handed to Context.Error, in order
    hist,      \* history: the paths observed, the paths with a Create not yet deleted,
               \* the calls made, whether the last step called Context.Filter, the
               \* paths that entered the index or got a Create, no Delete since
    left,      \* how many calls and file system changes the run may still make
    closes,    \* history: a Close has returned nil; the last Close came after one
    tlast      \* the last tree operation: its arguments and what it visited

vars == <<tree, heap, fdmap, wfd, signal, fs, kw, kq, dpc, buf, cpc, ret,
          events, errors, hist, left, closes, tlast>>

\* most watches the kernel grants (fs.inotify.max_user_watches)
MaxWd == 4

Wds == 1..MaxWd

\* most events the kernel queues (fs.inotify.max_queued_events)
MaxQueue == 3

\* most calls the caller makes in a run
MaxCalls == 2

\* most changes the file system sees in a run
MaxFsOps == 2

\* the paths the file system can hold, in walk order
FSOrder == <<T, Th, Ta, Tad, Tadx, Tadxy, Taf, Tal, Tab>>

\* the paths the file system holds in the inotify and Windows runs
FSPaths == {FSOrder[k] : k \in 1..Len(FSOrder)} \ (Links \cup Deep)

\* the index and insert/deleteAll on their own range over these
TreePaths == {T, Ta, Taf, Tad, Tadotb, Tab, Th, U}

\* most info objects alive at once
MaxInfos == Cardinality(TreePaths) + MaxWd + 2

InfoIds == 1..MaxInfos

\* an unused heap cell
NoInfo == [path |-> <<>>, isDir |-> FALSE, flags |-> {}, watch |-> 0]

\* newInfo(path, fi): mode from the file, no flags, no watch
newInfo(path) == [path |-> path, isDir |-> path \in DirPaths, flags |-> {}, watch |-> 0]

\* info.Ignored()
Ignored(h, i) == "ignored" \in h[i].flags

\* the paths stored in a tree
PathsIn(t, h) == {h[i].path : i \in Ids(t)}

\* a cell no pointer refers to
FreeId(h) == CHOOSE i \in InfoIds : h[i] = NoInfo /\ \A j \in InfoIds : h[j] = NoInfo => i <= j

\* the renumbering of the info objects
Canon(t, h, fm) ==
    LET Renumber(order, pos) ==
            [tree  |-> MapTree(t, pos),
             heap  |-> [k \in InfoIds |-> IF k <= Len(order) THEN h[order[k]] ELSE NoInfo],
             fdmap |-> [wd \in Wds |-> IF fm[wd] = 0 THEN 0 ELSE pos[fm[wd]]]]
        Ordered(order) ==
            Renumber(order, [i \in InfoIds |->
                               IF \E k \in 1..Len(order) : order[k] = i
                               THEN CHOOSE k \in 1..Len(order) : order[k] = i ELSE 0])
        InTree(inTree) ==
            Ordered(inTree \o StaleSeq(fm, 1, MaxWd, {inTree[k] : k \in 1..Len(inTree)}))
    IN InTree(IF IsNil(t) THEN <<>> ELSE deliter(t))

\* walk order: the sequence of a set of paths as filepath.Walk yields them,
\* a directory before its content, names of one directory in byte order
RECURSIVE LexLess(_, _)
LexLess(p, q) ==
    IF p = <<>> THEN q # <<>>
    ELSE IF q = <<>> THEN FALSE
    ELSE IF Head(p) = Head(q) THEN LexLess(Tail(p), Tail(q))
    ELSE IF Head(p) = SEP THEN TRUE
    ELSE IF Head(q) = SEP THEN FALSE
    ELSE Head(p) < Head(q)

RECURSIVE WalkSort(_)
WalkSort(S) ==
    IF S = {} THEN <<>>
    ELSE LET m == CHOOSE p \in S : \A q \in S \ {p} : LexLess(p, q)
         IN <<m>> \o WalkSort(S \ {m})

\* the paths of a sequence of ids
PathSeq(h, s) == [k \in 1..Len(s) |-> h[s[k]].path]

\* the elements of a sequence
Range(s) == {s[k] : k \in 1..Len(s)}

(***************************************************************************)
(* The kernel side of inotify                                              *)
(***************************************************************************)
\* a watch descriptor the kernel has not handed out
NoWatch == [st |-> "free", path |-> <<>>, self |-> FALSE, all |-> FALSE]

\* history: when the kernel produced an event, as the number of calls and
\* changes the run still had to make then (it falls from event to event);
\* kept only in the runs that follow the order of the events
Stamp == IF hist.stamped THEN left.calls + left.fs ELSE 0

\* an event of the queue: the descriptor, what happened, the name of the child
Ev(wd, kind, name) == [wd |-> wd, kind |-> kind, name |-> name, n |-> Stamp]

\* the kernel appends an event: it drops a repetition of the last event, and
\* once the queue is full it appends one IN_Q_OVERFLOW and drops the event
Enqueue(q, e) ==
    IF q # <<>> /\ [q[Len(q)] EXCEPT !.n = e.n] = e THEN q
    ELSE IF Len(q) < MaxQueue THEN Append(q, e)
    ELSE IF q[Len(q)].kind = "overflow" THEN q
    ELSE Append(q, Ev(0, "overflow", <<>>))

\* the live watch on the inode at path, or 0
WatchOf(k, path) ==
    IF \E wd \in Wds : k[wd].st = "live" /\ k[wd].path = path
    THEN CHOOSE wd \in Wds : k[wd].st = "live" /\ k[wd].path = path
    ELSE 0

\* an event about the child name of directory d, for the watch on d if its mask has it
Notify(k, q, d, kind, name) ==
    LET wd == WatchOf(k, d) IN
    IF wd # 0 /\ k[wd].all THEN Enqueue(q, Ev(wd, kind, name)) ELSE q

(***************************************************************************)
(* The watcher's operations.  m is the state they work on:                 *)
(* [tree, heap, fdmap, kw, kq, evs, errs, obs, api, os], evs and errs what *)
(* operation has handed to Context.Handle and Context.Error so far, obs    *)
(* the history of the paths inserted and not removed since.                *)
(***************************************************************************)
\* "/"
Slash == <<SEP>>

\* os.Lstat(path) succeeds
Exists(path) == path = Slash \/ path \in fs

\* filepath.Join(path, name)
Join(path, name) == IF path = Slash THEN path \o name ELSE path \o <<SEP>> \o name

\* Context.Filter of the package's example: names that start with '.' or end
\* with '~' are rejected
Filter(path) == LET n == Base(path) IN Len(n) # 0 /\ n[1] # DOT /\ n[Len(n)] # TILDE

\* watchFilter(info): only directories are watched
watchFilter(h, i) == h[i].isDir

\* kqueue: watchFilter(nfo): every entry is watched
watchFilterKq(h, i) == TRUE

\* the watchFilter of the backend that is built
Watchable(m, i) == IF m.os = "kqueue" THEN watchFilterKq(m.heap, i) ELSE watchFilter(m.heap, i)

\* Context.Handle(ev, info)
Emit(m, ev, i) ==
    [m EXCEPT !.evs = Append(@, [ev |-> ev, path |-> m.heap[i].path,
                                  ign |-> Ignored(m.heap, i), n |-> m.n])]

\* Context.Error(err)
Fail(m, err) == [m EXCEPT !.errs = Append(@, err)]

\* history: the operation r stands for has called Context.Filter
Filtered(r) == [r EXCEPT !.m.filt = TRUE]

\* a descriptor the kernel has never handed out: no watch, no map entry and no
\* unread or unhandled event carries it
FreshWds(m) ==
    {wd \in Wds : /\ m.kw[wd].st = "free"
                  /\ m.fdmap[wd] = 0
                  /\ \A k \in 1..Len(m.kq) : m.kq[k].wd # wd
                  /\ \A k \in 1..Len(buf) : buf[k].wd # wd}

\* syscall.InotifyAddWatch(w.fd, path, mask): [m, wd, err]; the watch of an
\* inode that is watched already is returned again with its mask replaced
InotifyAddWatch(m, path, self, all) ==
    LET Fresh(wd) ==
            [m |-> [m EXCEPT !.kw[wd] = [st |-> "live", path |-> path, self |-> self, all |-> all]],
             wd |-> wd, err |-> ""]
        New(free) ==
            IF free = {} THEN [m |-> m, wd |-> 0, err |-> "ENOSPC"]
            ELSE Fresh(CHOOSE x \in free : \A y \in free : x <= y)
        Old(wd) ==
            IF wd # 0
            THEN [m |-> [m EXCEPT !.kw[wd].self = self, !.kw[wd].all = all], wd |-> wd, err |-> ""]
            ELSE New(FreshWds(m))
    IN IF ~Exists(path) THEN [m |-> m, wd |-> 0, err |-> "ENOENT"]
       ELSE Old(WatchOf(m.kw, path))

\* Windows: watcher.add(nfo, flags): CreateFile opens a new handle on the
\* directory, watcher.start arms it
addWin(m, i) ==
    LET Open(hd) ==
            [m |-> [m EXCEPT !.kw[hd] = [st |-> "live", path |-> m.heap[i].path,
                                         self |-> FALSE, all |-> TRUE],
                             !.heap[i].watch = hd],
             err |-> ""]
        New(free) ==
            IF free = {} THEN [m |-> m, err |-> "CreateFile"]
            ELSE Open(CHOOSE x \in free : \A y \in free : x <= y)
    IN IF ~Exists(m.heap[i].path) THEN [m |-> m, err |-> "ENOENT"]
       ELSE New({x \in Wds : m.kw[x].st = "free"})

\* Windows: watcher.rm(nfo): CancelIo, CloseHandle, the watch field cleared
rmWin(m, i) ==
    LET hd == m.heap[i].watch IN
    IF m.kw[hd].st = "free" THEN [m |-> m, err |-> "CancelIo"]
    ELSE [m |-> [m EXCEPT !.kw[hd] = NoWatch, !.heap[i].watch = 0], err |-> ""]

\* kqueue: watcher.add(nfo, flags): syscall.Open hands out the lowest
\* descriptor that is not open, Kevent registers it; Open follows a link and
\* fails when the target does not exist
addKq(m, i) ==
    LET Opened(fd) ==
            [m |-> [m EXCEPT !.kw[fd] = [st |-> "live", path |-> m.heap[i].path,
                                         self |-> FALSE, all |-> TRUE],
                             !.heap[i].watch = fd,
                             !.fdmap[fd] = i],
             err |-> ""]
        New(free) ==
            IF free = {} THEN [m |-> m, err |-> "EMFILE"]
            ELSE Opened(CHOOSE x \in free : \A y \in free : x <= y)
    IN IF ~Exists(m.heap[i].path) \/ m.heap[i].path \in Links
       THEN [m |-> m, err |-> "ENOENT"]
       ELSE New({x \in Wds : m.kw[x].st = "free"})

\* kqueue: watcher.rm(nfo): syscall.Close drops the descriptor and with it the
\* event the kernel holds for it
rmKq(m, i) ==
    LET fd == m.heap[i].watch IN
    IF m.kw[fd].st = "free" THEN [m |-> m, err |-> "EBADF"]
    ELSE [m |-> [m EXCEPT !.kw[fd] = NoWatch,
                          !.kq = SelectSeq(@, LAMBDA e : e.wd # fd),
                          !.fdmap[fd] = 0],
          err |-> ""]

\* watcher.add(info, flags): [m, err]
add(m, i, self) ==
    LET Added(r) ==
            IF r.wd = 0 THEN [m |-> r.m, err |-> r.err]
            ELSE [m |-> [r.m EXCEPT !.heap[i].watch = r.wd, !.fdmap[r.wd] = i], err |-> ""]
    IN IF m.os = "windows" THEN addWin(m, i)
       ELSE IF m.os = "kqueue" THEN addKq(m, i)
       ELSE Added(InotifyAddWatch(m, m.heap[i].path, self, TRUE))

\* watcher.rm(info): [m, err]; the kernel answers a removal with IN_IGNORED
rm(m, i) ==
    IF m.os = "windows" THEN rmWin(m, i) ELSE
    IF m.os = "kqueue" THEN rmKq(m, i) ELSE
    LET wd == m.heap[i].watch IN
    IF m.kw[wd].st = "free" THEN [m |-> m, err |-> "EINVAL"]
    ELSE [m |-> [m EXCEPT !.kw[wd] = NoWatch,
                          !.kq = Enqueue(@, Ev(wd, "ignored", <<>>)),
                          !.fdmap[wd] = 0],
          err |-> ""]

\* the walker function of loadImpl on one path: [m, list, skips]
walker(m, path, flags, event, list, skips) ==
    LET i      == FreeId(m.heap)
        ignore == ~Filter(path)
        isDir  == path \in DirPaths
        \* filepath.Walk on SkipDir: a directory is not entered, and after a
        \* file the rest of its directory is left out
        skip   == skips \cup {IF isDir THEN path ELSE Parent(path)}
        Watched(a) ==
            [m     |-> IF a.err \notin {"", "ENOENT"} THEN Fail(a.m, a.err) ELSE a.m,
             list  |-> IF event # "" THEN Append(list, i) ELSE list,
             skips |-> IF isDir /\ "recurse" \notin flags THEN skip ELSE skips]
        Kept(m1) ==
            Watched(IF Watchable(m1, i) THEN add(m1, i, FALSE) ELSE [m |-> m1, err |-> ""])
        Inserted(h1, r) ==
            IF r.dup # 0 THEN [m |-> m, list |-> list, skips |-> skip]
            ELSE IF ignore
            THEN [m     |-> [m EXCEPT !.tree = r.tree,
                                      !.heap = [h1 EXCEPT ![i].flags = {"ignored"}],
                                      !.obs = @ \cup {path},
                                      !.ins = @ \cup {path}],
                  list  |-> list,
                  skips |-> IF isDir THEN skip ELSE skips]
            ELSE Kept([m EXCEPT !.tree = r.tree, !.heap = h1, !.obs = @ \cup {path},
                                !.ins = @ \cup {path}])
        Made(h1) == Inserted(h1, insert(m.tree, h1, i))
    IN Filtered(Made([m.heap EXCEPT ![i] = newInfo(path)]))

\* filepath.Walk(root, walker) from the k-th path of the file system on
RECURSIVE WalkFS(_, _, _, _, _, _, _)
WalkFS(m, root, flags, event, list, skips, k) ==
    LET Next(r) == WalkFS(r.m, root, flags, event, r.list, r.skips, k + 1)
    IN IF k > Len(FSOrder) THEN [m |-> m, list |-> list]
       ELSE IF \/ FSOrder[k] \notin fs
               \/ FSOrder[k] = root
               \/ ~InSubtree(root, FSOrder[k])
               \/ \E s \in skips : InSubtree(s, FSOrder[k])
            THEN WalkFS(m, root, flags, event, list, skips, k + 1)
            ELSE Next(walker(m, FSOrder[k], flags, event, list, skips))

\* every info of the list is handed to Context.Handle twice
RECURSIVE EmitAllTwice(_, _, _, _)
EmitAllTwice(m, ev, list, k) ==
    IF k > Len(list) THEN m
    ELSE EmitAllTwice(Emit(Emit(m, ev, list[k]), ev, list[k]), ev, list, k + 1)

\* "for _, f = range list { w.context.Handle(event, f) }"
RECURSIVE EmitAll(_, _, _, _)
EmitAll(m, ev, list, k) ==
    IF k > Len(list) THEN m ELSE EmitAll(Emit(m, ev, list[k]), ev, list, k + 1)

\* watcher.loadImpl(root, flags, event, rootflags, otherflags): [m, err];
\* self says whether rootflags holds IN_DELETE_SELF, event is "" for 0
loadImpl(m, root, flags, event, self) ==
    LET i == FreeId(m.heap)
        Walked(dup, f, w) ==
            [m   |-> IF event = "" THEN w.m
                     ELSE EmitAll(IF dup = 0 THEN Emit(w.m, event, f) ELSE w.m, event, w.list, 1),
             err |-> ""]
        Rooted(dup, f, m1) == Walked(dup, f, WalkFS(m1, root, flags, event, <<>>, {}, 1))
        Watched(a) ==
            Rooted(0, i, IF a.err \notin {"", "ENOENT"} THEN Fail(a.m, a.err) ELSE a.m)
        New(m0) ==
            Watched(IF Watchable(m0, i) THEN add(m0, i, self) ELSE [m |-> m0, err |-> ""])
        Inserted(h1, r) ==
            IF r.dup # 0
            THEN Rooted(r.dup, r.dup, [m EXCEPT !.heap[r.dup].flags = @ \cup flags])
            ELSE New([m EXCEPT !.tree = r.tree, !.heap = h1, !.obs = @ \cup {root},
                               !.ins = @ \cup {root}])
        Made(h1) == Inserted(h1, insert(m.tree, h1, i))
    IN IF ~Exists(root) THEN [m |-> m, err |-> "ENOENT"]
       ELSE IF root \notin DirPaths /\ "explicit" \in flags THEN [m |-> m, err |-> "ErrNotDir"]
       ELSE IF ~Filter(root) THEN Filtered([m |-> m, err |-> ""])
       ELSE Filtered(Made([m.heap EXCEPT ![i] = [newInfo(root) EXCEPT !.flags = flags]]))

\* the visitor of handle's deleteAll over the ids it is handed: inotify drops
\* the entry of the fd map, Windows clears the watch field and leaves the
\* handle open
RECURSIVE ForgetAll(_, _, _)
ForgetAll(m, list, k) ==
    IF k > Len(list) THEN m
    ELSE ForgetAll(IF m.heap[list[k]].watch = 0 THEN m
                   ELSE IF m.os = "windows" THEN [m EXCEPT !.heap[list[k]].watch = 0]
                   ELSE [m EXCEPT !.fdmap[m.heap[list[k]].watch] = 0], list, k + 1)

\* watcher.handle(mask, nfo, name) for one inotify event e of info nfo
handle(m, e, nfo) ==
    LET path == IF e.name # <<>> THEN Join(m.heap[nfo].path, e.name) ELSE m.heap[nfo].path
        Deleted(d) ==
            EmitAll(ForgetAll([m EXCEPT !.tree = d.tree,
                                        !.obs = {p \in @ : ~InSubtree(path, p)}], d.list, 1),
                    "Delete", d.list, 1)
        Loaded(r) == IF r.err \notin {"", "ENOENT"} THEN Fail(r.m, r.err) ELSE r.m
        Known(fi) ==
            IF fi = 0
            THEN Loaded(loadImpl(m, path, m.heap[nfo].flags \cap {"recurse"}, "Create", FALSE))
            ELSE IF ~Exists(path) THEN m
            ELSE Emit(m, "Modify", fi)
    IN IF e.kind \in {"delete", "delete_self", "ignored"}
       THEN Deleted(deleteAll(m.tree, m.heap, path))
       ELSE Known(IF e.name # <<>> THEN get(m.tree, m.heap, path) ELSE nfo)

\* the visitor of unload's deleteAll over the ids it is handed: [m, reload]
RECURSIVE UnloadAll(_, _, _, _, _, _)
UnloadAll(m, list, k, path, recursive, reload) ==
    LET i == list[k]
        Removed(r) ==
            UnloadAll(IF r.err # "" THEN Fail(r.m, r.err) ELSE r.m, list, k + 1, path, recursive,
                      IF ~recursive /\ "explicit" \in m.heap[i].flags /\ m.heap[i].path # path
                      THEN Append(reload, i) ELSE reload)
    IN IF k > Len(list) THEN [m |-> m, reload |-> reload]
       ELSE Removed(IF m.heap[i].watch # 0 THEN rm(m, i) ELSE [m |-> m, err |-> ""])

RECURSIVE ReloadAll(_, _, _)
ReloadAll(m, reload, k) ==
    LET Loaded(r) == ReloadAll(IF r.err # "" THEN Fail(r.m, r.err) ELSE r.m, reload, k + 1)
    IN IF k > Len(reload) THEN m
       ELSE Loaded(loadImpl(m, m.heap[reload[k]].path,
                            m.heap[reload[k]].flags \cap {"recurse", "explicit"}, "", FALSE))

\* watcher.unload(path, recursive) on an open watcher: [m, err]
unload(m, path, recursive) ==
    LET Reloaded(err, u) == [m |-> ReloadAll(u.m, u.reload, 1), err |-> err]
        Deleted(err, m1, d) ==
            Reloaded(err, UnloadAll([m1 EXCEPT !.tree = d.tree,
                                               !.obs = {p \in @ : ~InSubtree(path, p)}],
                                    d.list, 1, path, recursive, <<>>))
        Cleared(err, m1) == Deleted(err, m1, deleteAll(m1.tree, m1.heap, path))
        Removed(nfo, r) == Cleared(r.err, [r.m EXCEPT !.heap[nfo].watch = 0])
        Found(nfo) ==
            IF nfo = 0 \/ m.heap[nfo].watch = 0 THEN [m |-> m, err |-> ""]
            ELSE Removed(nfo, rm(m, nfo))
    IN Found(get(m.tree, m.heap, path))

\* close's "for _, info := range w.fdmap { w.rm(info) }", by ascending descriptor
RECURSIVE RmAll(_, _)
RmAll(m, wd) ==
    LET Removed(r) == RmAll(IF r.err # "" THEN Fail(r.m, r.err) ELSE r.m, wd + 1)
    IN IF wd > MaxWd THEN m
       ELSE IF m.fdmap[wd] = 0 THEN RmAll(m, wd + 1)
       ELSE Removed(rm(m, m.fdmap[wd]))

(***************************************************************************)
(* Steps                                                                   *)
(***************************************************************************)
\* the watcher's state as the operations take it
M == [tree |-> tree, heap |-> heap, fdmap |-> fdmap, kw |-> kw, kq |-> kq,
      evs |-> <<>>, errs |-> <<>>, obs |-> hist.observed, api |-> hist.api,
      loaded |-> hist.loaded, unloaded |-> hist.unloaded,
      n |-> 0, filt |-> FALSE, ins |-> {}, os |-> "linux"]

\* the calls so far: none, only successful Load(T, true), or others as well
Api(m, path, recursive, err) ==
    [m EXCEPT !.api = IF path = T /\ recursive /\ err = "" /\ @ # "mixed" THEN "load" ELSE "mixed"]

\* the roots the caller has loaded and not unloaded since, and the watched
\* paths it has unloaded and not loaded since; a recursive Unload takes the
\* loaded roots below its path along
Called(m, op, path, recursive, err) ==
    IF op = "load"
    THEN IF err # "" THEN m
         ELSE [m EXCEPT !.loaded = @ \cup {path}, !.unloaded = @ \ {path}]
    ELSE [m EXCEPT !.loaded = {d \in @ : d # path /\ ~(recursive /\ InSubtree(path, d))},
                   !.unloaded = @ \cup {path}]

\* the paths with a Create delivered and no Delete delivered after it
RECURSIVE Created(_, _, _)
Created(S, evs, k) ==
    IF k > Len(evs) THEN S
    ELSE Created(IF evs[k].ev = "Create" THEN S \cup {evs[k].path}
                 ELSE IF evs[k].ev = "Delete" THEN S \ {evs[k].path}
                 ELSE S, evs, k + 1)

\* the non-ignored paths of the index
Visible(t, h) == {h[i].path : i \in {j \in Ids(t) : ~Ignored(h, j)}}

\* Watcher.Get(path): the id of the entry, 0 for nil
Get(path) ==
    LET fi == get(tree, heap, path) IN IF fi = 0 \/ Ignored(heap, fi) THEN 0 ELSE fi

\* Watcher.Traverse(root, travFn) with a travFn that returns nil: the paths it is handed
Traverse(root) == walk(tree, heap, root, {}).seen

\* the state after an operation that left the watcher's state as m
Commit(m) ==
    LET Stored(c) ==
            /\ tree' = c.tree
            /\ heap' = c.heap
            /\ fdmap' = c.fdmap
    IN /\ Stored(Canon(m.tree, m.heap, m.fdmap))
       /\ kw' = m.kw
       /\ kq' = m.kq
       /\ events' = m.evs
       /\ errors' = m.errs
       /\ hist' = [observed |-> m.obs, created |-> Created(hist.created, m.evs, 1),
                   api |-> m.api, loaded |-> m.loaded, unloaded |-> m.unloaded,
                   stamped |-> hist.stamped, filtered |-> m.filt,
                   entered |-> Created(hist.entered \cup m.ins, m.evs, 1),
                   last |-> [p \in FSPaths |->
                               IF \E k \in 1..Len(m.evs) : m.evs[k].path = p
                               THEN m.n ELSE hist.last[p]]]

\* one more call of the caller, one more change of the file system
Call == left.calls > 0 /\ left' = [left EXCEPT !.calls = @ - 1]

Change == left.fs > 0 /\ left' = [left EXCEPT !.fs = @ - 1]

\* watcher.hasParentWatch(path)
hasParentWatch(path) == get(tree, heap, Parent(path)) # 0

\* hasParentWatch: filepath.Split gives the empty directory for a path
\* without a separator, and path[len(path)-1] is out of range
SplitPanics(path) == LastSep(path, Len(path)) = 0

\* the goroutine that calls the watcher is neither blocked nor dead
Idle == cpc = "idle"

\* a mutex that writers take without waiting for the readers
LockUnheld == TRUE

\* w.mutex.Lock() returns: no Traverse holds the read lock
Lock == tlast.op # "traverse"

\* watcher.load(path, recursive) with the path Watcher.Load has cleaned, the
\* tree history left open
LoadCall(path, recursive) ==
    /\ Idle
    /\ Call
    /\ SplitPanics(path) \/ wfd = -1 \/ Lock
    /\ UNCHANGED <<wfd, signal, fs, dpc, buf, closes>>
    /\ cpc' = IF SplitPanics(path) THEN "panic" ELSE cpc
    /\ IF SplitPanics(path)
       THEN /\ ret' = [op |-> "load", val |-> "panic"]
            /\ Commit(Api(M, path, FALSE, ""))
       ELSE IF wfd = -1
       THEN /\ ret' = [op |-> "load", val |-> "ErrClosed"]
            /\ Commit(Api(M, path, FALSE, ""))
       ELSE LET Done(r) ==
                    /\ ret' = [op |-> "load", val |-> r.err]
                    /\ Commit(Called(Api(r.m, path, recursive, r.err), "load", path,
                                     recursive, r.err))
            IN Done(loadImpl(M, path, {"explicit"} \cup (IF recursive THEN {"recurse"} ELSE {}),
                             "", ~hasParentWatch(path)))

\* Watcher.Load(path, recursive)
Load(path, recursive) == LoadCall(Clean(path), recursive) /\ UNCHANGED tlast

\* unload's test "nfo == nil || nfo.watch == nil": the path is in the index
\* and has a watch
HasWatch(path) ==
    LET Found(nfo) == nfo # 0 /\ heap[nfo].watch # 0
    IN Found(get(tree, heap, path))

\* Watcher.Unload(path, recursive), the tree history left open
UnloadCall(path, recursive) ==
    /\ Idle
    /\ Call
    /\ (wfd # -1 /\ HasWatch(path)) => Lock
    /\ UNCHANGED <<wfd, signal, fs, dpc, buf, cpc, closes>>
    /\ IF wfd = -1
       THEN /\ ret' = [op |-> "unload", val |-> "ErrClosed"]
            /\ Commit(Api(M, path, FALSE, ""))
       ELSE LET Done(r) ==
                    /\ ret' = [op |-> "unload", val |-> r.err]
                    /\ Commit(IF HasWatch(path)
                              THEN Called(Api(r.m, path, FALSE, ""), "unload", path,
                                          recursive, r.err)
                              ELSE Api(r.m, path, FALSE, ""))
            IN Done(unload(M, path, recursive))

\* Watcher.Unload(path, recursive)
Unload(path, recursive) == UnloadCall(path, recursive) /\ UNCHANGED tlast

\* an entry of the fd map whose watch field is nil: rm dereferences it
RmPanics(m) == \E wd \in Wds : m.fdmap[wd] # 0 /\ m.heap[m.fdmap[wd]].watch = 0

\* the rest of watcher.close once the signal channel takes the function
CloseFinish(m) ==
    /\ signal' = signal + 1
    /\ IF RmPanics(m)
       THEN /\ cpc' = "panic"
            /\ ret' = [op |-> "close", val |-> "panic"]
            /\ Commit(m)
            /\ UNCHANGED closes
       ELSE /\ cpc' = "idle"
            /\ ret' = [op |-> "close", val |-> ""]
            /\ Commit(RmAll(m, 1))
            /\ closes' = [closes EXCEPT !.ok = TRUE, !.after = closes.ok]

\* Watcher.Close() up to the send on the signal channel
Close ==
    /\ Idle
    /\ Call
    /\ Lock
    /\ UNCHANGED <<wfd, fs, dpc, buf, tlast>>
    /\ IF wfd = -1
       THEN /\ ret' = [op |-> "close", val |-> "ErrClosed"]
            /\ closes' = [closes EXCEPT !.after = closes.ok]
            /\ Commit(Api(M, Slash, FALSE, ""))
            /\ UNCHANGED <<signal, cpc>>
       ELSE LET Send(m1) ==
                    IF signal = 0 THEN CloseFinish(m1)
                    ELSE /\ cpc' = "closeSend"
                         /\ Commit(m1)
                         /\ UNCHANGED <<signal, ret, closes>>
                Woken(a, i) ==
                    IF a.wd = 0
                    THEN /\ ret' = [op |-> "close", val |-> a.err]
                         /\ closes' = [closes EXCEPT !.after = closes.ok]
                         /\ Commit(a.m)
                         /\ UNCHANGED <<signal, cpc>>
                    ELSE Send(IF IsNil(tree)
                              THEN [a.m EXCEPT !.heap[i] = [newInfo(Slash) EXCEPT !.watch = a.wd],
                                               !.fdmap[a.wd] = i]
                              ELSE a.m)
                Locked(m0) ==
                    Woken(IF IsNil(tree) THEN InotifyAddWatch(m0, Slash, TRUE, FALSE)
                                         ELSE [m |-> m0, wd |-> 1, err |-> ""],
                          FreeId(m0.heap))
            IN Locked(Api(M, Slash, FALSE, ""))

\* the signal channel has room for the function of a close blocked in its send
CanCloseSend == cpc = "closeSend" /\ signal = 0

\* the blocked send of watcher.close goes through
CloseSend ==
    /\ CanCloseSend
    /\ UNCHANGED <<wfd, fs, dpc, buf, left, tlast>>
    /\ CloseFinish(M)

\* watcher.mutex is free: only a close blocked in its send holds it across steps
Unlocked == cpc # "closeSend"

\* run is in syscall.Read and the queue holds an event
CanRead == dpc = "read" /\ cpc # "panic" /\ kq # <<>>

\* run: syscall.Read returns the queued events, then the select on w.signal
Read ==
    /\ CanRead
    /\ buf' = IF signal > 0 THEN <<>> ELSE kq
    /\ dpc' = IF signal > 0 THEN "teardown" ELSE "handle"
    /\ signal' = IF signal > 0 THEN signal - 1 ELSE signal
    /\ UNCHANGED <<wfd, fs, cpc, ret, left, closes, tlast>>
    /\ Commit([M EXCEPT !.kq = <<>>])

\* run has taken the function close sent and gets the write lock
CanTeardown == dpc = "teardown" /\ cpc # "panic" /\ Unlocked /\ Lock

\* run: the function close sent: the inotify descriptor is closed and with it
\* every watch it still has
Teardown ==
    /\ CanTeardown
    /\ dpc' = "exited"
    /\ wfd' = -1
    /\ UNCHANGED <<signal, fs, buf, cpc, ret, left, closes, tlast>>
    /\ Commit([M EXCEPT !.kw = [wd \in Wds |-> NoWatch], !.kq = <<>>,
                        !.fdmap = [wd \in Wds |-> 0]])

\* a loop over the buffer that takes the last event first
RawBack(b) == [raw |-> b[Len(b)], rest |-> SubSeq(b, 1, Len(b) - 1)]

\* run's loop over the buffer: the event at offset, and what lies behind it
Raw(b) == [raw |-> Head(b), rest |-> Tail(b)]

\* handle(mask, nfo, name) takes the write lock: for a delete, and to load a
\* path that is not in the index
Writes(e, nfo) ==
    \/ e.kind \in {"delete", "delete_self", "ignored"}
    \/ e.name # <<>> /\ get(tree, heap, Join(heap[nfo].path, e.name)) = 0

\* run has an event in its buffer and gets the locks its handler takes
CanHandle ==
    /\ dpc = "handle"
    /\ cpc # "panic"
    /\ Unlocked
    /\ buf # <<>>
    /\ (Raw(buf).raw.wd # 0 /\ fdmap[Raw(buf).raw.wd] # 0
           /\ Writes(Raw(buf).raw, fdmap[Raw(buf).raw.wd])) => Lock

\* run: the next event of the buffer is looked up in the fd map and handled
Handle ==
    /\ CanHandle
    /\ buf' = Raw(buf).rest
    /\ dpc' = IF Raw(buf).rest = <<>> THEN "read" ELSE "handle"
    /\ UNCHANGED <<wfd, signal, fs, cpc, ret, left, closes, tlast>>
    /\ LET e   == Raw(buf).raw
           nfo == IF e.wd = 0 THEN 0 ELSE fdmap[e.wd]
       IN Commit(IF nfo = 0 THEN M ELSE handle([M EXCEPT !.n = e.n], e, nfo))

(***************************************************************************)
(* The file system changes under the watcher                               *)
(***************************************************************************)
\* a file or an empty directory is created
FsCreate(p) ==
    /\ wfd = 1
    /\ Change
    /\ p \notin fs
    /\ p = T \/ Parent(p) \in fs
    /\ fs' = fs \cup {p}
    /\ UNCHANGED <<wfd, signal, dpc, buf, cpc, ret, closes, tlast>>
    /\ Commit([M EXCEPT !.kq = Notify(kw, kq, Parent(p), "create", Base(p))])

\* a file is written and closed
FsWrite(p) ==
    /\ wfd = 1
    /\ Change
    /\ p \in fs \ DirPaths
    /\ UNCHANGED <<wfd, signal, fs, dpc, buf, cpc, ret, closes, tlast>>
    /\ Commit([M EXCEPT !.kq = Notify(kw, kq, Parent(p), "modify", Base(p))])

\* a file or an empty directory is removed; the kernel drops the watch of a
\* removed directory and says so with IN_IGNORED
FsRemove(p) ==
    /\ wfd = 1
    /\ Change
    /\ p \in fs
    /\ \A q \in fs : InSubtree(p, q) => q = p
    /\ fs' = fs \ {p}
    /\ UNCHANGED <<wfd, signal, dpc, buf, cpc, ret, closes, tlast>>
    /\ LET wd == WatchOf(kw, p)
           q1 == Notify(kw, kq, Parent(p), "delete", Base(p))
           q2 == IF wd # 0 /\ kw[wd].self THEN Enqueue(q1, Ev(wd, "delete_self", <<>>)) ELSE q1
           q3 == IF wd # 0 THEN Enqueue(q2, Ev(wd, "ignored", <<>>)) ELSE q2
       IN Commit([M EXCEPT !.kq = q3,
                           !.kw = IF wd # 0 THEN [kw EXCEPT ![wd] = NoWatch] ELSE kw])

\* a directory is renamed to a place outside the paths the watcher knows,
\* with all its content (IN_MOVED_FROM); its watches stay with the inodes
FsMoveOut(p) ==
    /\ wfd = 1
    /\ Change
    /\ p \in fs \cap DirPaths
    /\ p # T
    /\ fs' = {q \in fs : ~InSubtree(p, q)}
    /\ UNCHANGED <<wfd, signal, dpc, buf, cpc, ret, closes, tlast>>
    /\ Commit([M EXCEPT !.kq = Notify(kw, kq, Parent(p), "delete", Base(p)),
                        !.kw = [wd \in Wds |->
                                  IF kw[wd].st = "live" /\ InSubtree(p, kw[wd].path)
                                  THEN [kw[wd] EXCEPT !.st = "moved"] ELSE kw[wd]]])

\* a directory that has content, all that S has below p, is renamed into
\* place (IN_MOVED_TO)
FsMoveInTree(p, S) ==
    /\ wfd = 1
    /\ Change
    /\ p \in DirPaths \ fs
    /\ Parent(p) \in fs
    /\ \E q \in S : InSubtree(p, q) /\ q # p
    /\ fs' = fs \cup {q \in S : InSubtree(p, q)}
    /\ UNCHANGED <<wfd, signal, dpc, buf, cpc, ret, closes, tlast>>
    /\ Commit([M EXCEPT !.kq = Notify(kw, kq, Parent(p), "create", Base(p))])

\* a directory with its content is renamed into place
FsMoveIn(p) == FsMoveInTree(p, FSPaths)

(***************************************************************************)
(* The watcher with its run goroutine, one caller and the file system      *)
(***************************************************************************)
NoTreeOp == [op |-> "none", root |-> <<>>, before |-> {}, list |-> <<>>, dup |-> FALSE]

\* nothing has happened yet
NoHist ==
    [observed |-> {}, created |-> {}, api |-> "none", loaded |-> {}, unloaded |-> {},
     stamped |-> FALSE, filtered |-> FALSE, entered |-> {},
     last |-> [p \in FSPaths |-> 0]]

Init ==
    /\ tree = NilRef
    /\ heap = [i \in InfoIds |-> NoInfo]
    /\ fdmap = [wd \in Wds |-> 0]
    /\ wfd = 1
    /\ signal = 0
    /\ fs \in {S \in SUBSET FSPaths : T \in S /\ \A p \in S : p = T \/ Parent(p) \in S}
    /\ kw = [wd \in Wds |-> NoWatch]
    /\ kq = <<>>
    /\ dpc = "read"
    /\ buf = <<>>
    /\ cpc = "idle"
    /\ ret = [op |-> "none", val |-> ""]
    /\ events = <<>>
    /\ errors = <<>>
    /\ hist = NoHist
    /\ left = [calls |-> MaxCalls, fs |-> MaxFsOps]
    /\ closes = [ok |-> FALSE, after |-> FALSE]
    /\ tlast = NoTreeOp

\* the paths the caller loads and unloads
LoadPaths == {T, Ta}

Next ==
    \/ \E p \in LoadPaths, r \in BOOLEAN : Load(p, r)
    \/ \E p \in LoadPaths, r \in BOOLEAN : Unload(p, r)
    \/ Close
    \/ CloseSend
    \/ Read
    \/ Handle
    \/ Teardown
    \/ \E p \in FSPaths : FsCreate(p)
    \/ \E p \in FSPaths : FsWrite(p)
    \/ \E p \in FSPaths : FsRemove(p)
    \/ \E p \in FSPaths : FsMoveOut(p)
    \/ \E p \in FSPaths : FsMoveIn(p)

Spec == Init /\ [][Next]_vars

(***************************************************************************)
(* The inotify backend with a caller that also passes relative paths; the  *)
(* file system does not change                                             *)
(***************************************************************************)
\* "", ".", "./", "t" and "t/"
RelPaths == {<<>>, <<DOT>>, <<DOT, SEP>>, <<116>>, <<116, SEP>>}

NextRel ==
    \/ \E p \in LoadPaths \cup RelPaths, r \in BOOLEAN : Load(p, r)
    \/ \E p \in LoadPaths, r \in BOOLEAN : Unload(p, r)
    \/ Close
    \/ CloseSend
    \/ Read
    \/ Handle
    \/ Teardown

SpecRel == Init /\ [][NextRel]_vars

(***************************************************************************)
(* The inotify backend with the history of when the kernel produced each   *)
(* event and of the last event delivered for each path                     *)
(***************************************************************************)
OrderInit ==
    /\ tree = NilRef
    /\ heap = [i \in InfoIds |-> NoInfo]
    /\ fdmap = [wd \in Wds |-> 0]
    /\ wfd = 1
    /\ signal = 0
    /\ fs \in {S \in SUBSET FSPaths : T \in S /\ \A p \in S : p = T \/ Parent(p) \in S}
    /\ kw = [wd \in Wds |-> NoWatch]
    /\ kq = <<>>
    /\ dpc = "read"
    /\ buf = <<>>
    /\ cpc = "idle"
    /\ ret = [op |-> "none", val |-> ""]
    /\ events = <<>>
    /\ errors = <<>>
    /\ hist = [NoHist EXCEPT !.stamped = TRUE,
                             !.last = [p \in FSPaths |-> MaxCalls + MaxFsOps]]
    /\ left = [calls |-> MaxCalls, fs |-> MaxFsOps]
    /\ closes = [ok |-> FALSE, after |-> FALSE]
    /\ tlast = NoTreeOp

SpecOrder == OrderInit /\ [][Next]_vars

(***************************************************************************)
(* The inotify backend under a file system in which directory trees appear *)
(* three levels below the loaded root                                      *)
(***************************************************************************)
\* the paths the file system can hold in this run
DeepPaths == {T, Ta} \cup Deep

DeepInit ==
    /\ tree = NilRef
    /\ heap = [i \in InfoIds |-> NoInfo]
    /\ fdmap = [wd \in Wds |-> 0]
    /\ wfd = 1
    /\ signal = 0
    /\ fs \in {S \in SUBSET DeepPaths : T \in S /\ \A p \in S : p = T \/ Parent(p) \in S}
    /\ kw = [wd \in Wds |-> NoWatch]
    /\ kq = <<>>
    /\ dpc = "read"
    /\ buf = <<>>
    /\ cpc = "idle"
    /\ ret = [op |-> "none", val |-> ""]
    /\ events = <<>>
    /\ errors = <<>>
    /\ hist = NoHist
    /\ left = [calls |-> MaxCalls, fs |-> MaxFsOps]
    /\ closes = [ok |-> FALSE, after |-> FALSE]
    /\ tlast = NoTreeOp

NextDeep ==
    \/ \E p \in LoadPaths, r \in BOOLEAN : Load(p, r)
    \/ Read
    \/ Handle
    \/ \E p \in DeepPaths : FsCreate(p)
    \/ \E p \in DeepPaths : FsMoveInTree(p, DeepPaths)

SpecDeep == DeepInit /\ [][NextDeep]_vars

(***************************************************************************)
(* The inotify backend with a second goroutine that calls Traverse: tlast  *)
(* holds the call in progress, the non-ignored entries of the index when   *)
(* it took the read lock, and the paths its visitor has been handed        *)
(***************************************************************************)
\* Watcher.Traverse(root, travFn) takes the read lock
TraverseBegin(root) ==
    /\ tlast.op = "none"
    /\ Unlocked
    /\ Call
    /\ tlast' = [op |-> "traverse", root |-> root, before |-> Visible(tree, heap),
                 list |-> <<>>, dup |-> FALSE]
    /\ UNCHANGED <<tree, heap, fdmap, wfd, signal, fs, kw, kq, dpc, buf, cpc, ret, events,
                   errors, hist, closes>>

\* tree.walk hands the next entry to travFn, which returns nil
TraverseVisit ==
    LET More(seen) ==
            /\ Len(tlast.list) < Len(seen)
            /\ tlast' = [tlast EXCEPT !.list = Append(@, seen[Len(tlast.list) + 1])]
    IN /\ tlast.op = "traverse"
       /\ More(walk(tree, heap, tlast.root, {}).seen)
       /\ UNCHANGED <<tree, heap, fdmap, wfd, signal, fs, kw, kq, dpc, buf, cpc, ret, events,
                      errors, hist, left, closes>>

\* tree.walk returns and Traverse releases the read lock
TraverseEnd ==
    /\ tlast.op = "traverse"
    /\ Len(tlast.list) >= Len(walk(tree, heap, tlast.root, {}).seen)
    /\ tlast' = [tlast EXCEPT !.op = "traversed"]
    /\ UNCHANGED <<tree, heap, fdmap, wfd, signal, fs, kw, kq, dpc, buf, cpc, ret, events,
                   errors, hist, left, closes>>

NextTraverse ==
    \/ \E p \in LoadPaths, r \in BOOLEAN : Load(p, r)
    \/ \E p \in LoadPaths, r \in BOOLEAN : Unload(p, r)
    \/ Close
    \/ CloseSend
    \/ Read
    \/ Handle
    \/ Teardown
    \/ \E p \in FSPaths : FsCreate(p)
    \/ \E p \in FSPaths : FsRemove(p)
    \/ \E p \in FSPaths : FsMoveOut(p)
    \/ \E p \in LoadPaths : TraverseBegin(p)
    \/ TraverseVisit
    \/ TraverseEnd

SpecTraverse == Init /\ [][NextTraverse]_vars

(***************************************************************************)
(* The inotify backend under fair scheduling: the run goroutine and a      *)
(* caller blocked in close's send take their next step when they can       *)
(***************************************************************************)
\* the paths that change in the runs with fair scheduling
FairPaths == {T, Ta}

FairInit ==
    /\ tree = NilRef
    /\ heap = [i \in InfoIds |-> NoInfo]
    /\ fdmap = [wd \in Wds |-> 0]
    /\ wfd = 1
    /\ signal = 0
    /\ fs \in {{T}, {T, Ta}, {T, Ta, Taf}}
    /\ kw = [wd \in Wds |-> NoWatch]
    /\ kq = <<>>
    /\ dpc = "read"
    /\ buf = <<>>
    /\ cpc = "idle"
    /\ ret = [op |-> "none", val |-> ""]
    /\ events = <<>>
    /\ errors = <<>>
    /\ hist = NoHist
    /\ left = [calls |-> MaxCalls, fs |-> MaxFsOps]
    /\ closes = [ok |-> FALSE, after |-> FALSE]
    /\ tlast = NoTreeOp

NextFair ==
    \/ \E r \in BOOLEAN : Load(T, r)
    \/ Close
    \/ CloseSend
    \/ Read
    \/ Handle
    \/ Teardown
    \/ \E p \in FairPaths : FsCreate(p)
    \/ \E p \in FairPaths : FsRemove(p)

\* run takes the next event of its buffer: what every step of Handle does to
\* the buffer, and no other step does while run is handling
HandleTakes == CanHandle /\ buf' = Raw(buf).rest

\* run and a caller blocked in close's send are goroutines the scheduler
\* keeps running: a step of theirs that stays possible is taken. Handle is
\* possible exactly when CanHandle holds and its steps are the steps of
\* HandleTakes that change the buffer
SpecFair ==
    /\ FairInit
    /\ [][NextFair]_vars
    /\ WF_vars(Read)
    /\ WF_buf(HandleTakes)
    /\ WF_vars(Teardown)
    /\ WF_vars(CloseSend)

(***************************************************************************)
(* The Windows backend: load, unload and the teardown of close are         *)
(* functions the caller hands to the run goroutine over w.signal; kw holds *)
(* the directory handles, wfd the field w.port                             *)
(***************************************************************************)
MWin == [M EXCEPT !.os = "windows"]

\* Windows: the deleteAll visitor of close's function over the ids it is handed
RECURSIVE RmEach(_, _, _)
RmEach(m, list, k) ==
    LET Removed(r) == RmEach(IF r.err # "" THEN Fail(r.m, r.err) ELSE r.m, list, k + 1)
    IN IF k > Len(list) THEN m
       ELSE Removed(IF m.heap[list[k]].watch # 0 THEN rm(m, list[k]) ELSE [m |-> m, err |-> ""])

\* Windows: the function watcher.close sends
closeWin(m) ==
    LET Deleted(d) ==
            RmEach([m EXCEPT !.tree = d.tree, !.obs = {p \in @ : ~InSubtree(<<>>, p)}], d.list, 1)
    IN Deleted(deleteAll(m.tree, m.heap, <<>>))

\* Windows: watcher.unload(path, recursive) on an open watcher: [m, err]
unloadWin(m, path, recursive) ==
    LET Reloaded(u) == [m |-> ReloadAll(u.m, u.reload, 1), err |-> ""]
        Deleted(d) ==
            Reloaded(UnloadAll([m EXCEPT !.tree = d.tree,
                                         !.obs = {p \in @ : ~InSubtree(path, p)}],
                               d.list, 1, path, recursive, <<>>))
        Found(nfo) ==
            IF nfo = 0 \/ m.heap[nfo].watch = 0 THEN [m |-> m, err |-> ""]
            ELSE Deleted(deleteAll(m.tree, m.heap, path))
    IN Found(get(m.tree, m.heap, path))

\* Windows: Watcher.Load(path, recursive); run takes the function and answers
LoadWin(path, recursive) ==
    /\ Idle
    /\ Call
    /\ UNCHANGED <<wfd, signal, fs, dpc, buf, cpc, closes, tlast>>
    /\ IF wfd = -1
       THEN /\ ret' = [op |-> "load", val |-> "ErrClosed"]
            /\ Commit(Api(MWin, path, FALSE, ""))
       ELSE /\ dpc = "read"
            /\ signal = 0
            /\ LET Done(r) ==
                       /\ ret' = [op |-> "load", val |-> r.err]
                       /\ Commit(Api(r.m, path, recursive, r.err))
               IN Done(loadImpl(MWin, path,
                                {"explicit"} \cup (IF recursive THEN {"recurse"} ELSE {}),
                                "", FALSE))

\* Windows: Watcher.Unload(path, recursive)
UnloadWin(path, recursive) ==
    /\ Idle
    /\ Call
    /\ UNCHANGED <<wfd, signal, fs, dpc, buf, cpc, closes, tlast>>
    /\ IF wfd = -1
       THEN /\ ret' = [op |-> "unload", val |-> "ErrClosed"]
            /\ Commit(Api(MWin, path, FALSE, ""))
       ELSE /\ dpc = "read"
            /\ signal = 0
            /\ LET Done(r) ==
                       /\ ret' = [op |-> "unload", val |-> r.err]
                       /\ Commit(Api(r.m, path, FALSE, ""))
               IN Done(unloadWin(MWin, path, recursive))

\* Windows: Watcher.Close(): the function is sent, the port posted, w.port invalidated
CloseWin ==
    /\ Idle
    /\ Call
    /\ UNCHANGED <<fs, dpc, buf, cpc, tlast>>
    /\ Commit(Api(MWin, Slash, FALSE, ""))
    /\ closes' = [ok |-> closes.ok \/ wfd # -1, after |-> closes.ok]
    /\ IF wfd = -1
       THEN /\ ret' = [op |-> "close", val |-> "ErrClosed"]
            /\ UNCHANGED <<wfd, signal>>
       ELSE /\ signal = 0
            /\ signal' = 1
            /\ wfd' = -1
            /\ ret' = [op |-> "close", val |-> ""]

\* Windows: run wakes up without a watch, takes close's function and returns
TeardownWin ==
    /\ dpc = "read"
    /\ signal > 0
    /\ signal' = signal - 1
    /\ dpc' = "exited"
    /\ UNCHANGED <<wfd, fs, buf, cpc, ret, left, closes, tlast>>
    /\ Commit(closeWin(MWin))

NextWin ==
    \/ \E p \in LoadPaths, r \in BOOLEAN : LoadWin(p, r)
    \/ \E p \in LoadPaths, r \in BOOLEAN : UnloadWin(p, r)
    \/ CloseWin
    \/ TeardownWin

SpecWin == Init /\ [][NextWin]_vars

(***************************************************************************)
(* The Windows backend's run with its queue: kq holds the change records   *)
(* the kernel has written for the directory handles, buf the queue of run; *)
(* an item names its info by the handle of the info's watch                *)
(***************************************************************************)
\* most changes of the file system in a run of the Windows queue
MaxWinChanges == 3

\* isDelete(action): FILE_ACTION_REMOVED or FILE_ACTION_RENAMED_OLD_NAME
isDelete(action) == action = "delete"

\* the kernel writes a record about the child name of directory d for the
\* handle that is open on d
NotifyWin(k, q, d, kind, name) ==
    LET hd == WatchOf(k, d) IN
    IF hd # 0 THEN Append(q, Ev(hd, kind, name)) ELSE q

\* watch.info of the handle hd: the info whose watch it is, 0 for nil
InfoOf(h, hd) ==
    IF \E i \in InfoIds : h[i].path # <<>> /\ h[i].watch = hd
    THEN CHOOSE i \in InfoIds : h[i].path # <<>> /\ h[i].watch = hd
    ELSE 0

\* qitem{raw.Action, watch.info, name}
qitem(raw) == [action |-> raw.kind, hd |-> raw.wd, name |-> raw.name]

\* run's loop over the queue for a record: the first item of the same info
\* and name decides, "found" says that the record is dropped
found(queue, item) ==
    LET same == {k \in 1..Len(queue) :
                    queue[k].hd = item.hd /\ queue[k].name = item.name}
        First(k) == ~isDelete(queue[k].action) /\ ~isDelete(item.action)
    IN same # {} /\ First(CHOOSE k \in same : \A j \in same : k <= j)

\* run's loop over the records of watch.buf from the k-th on
RECURSIVE parse(_, _, _)
parse(queue, recs, k) ==
    IF k > Len(recs) THEN queue
    ELSE parse(IF found(queue, qitem(recs[k])) THEN queue
               ELSE Append(queue, qitem(recs[k])), recs, k + 1)

\* "for _, q := range queue { w.handle(q.action, q.info, q.name) }"
RECURSIVE handleAll(_, _, _)
handleAll(m, queue, k) ==
    IF k > Len(queue) THEN m
    ELSE handleAll(handle(m, [kind |-> queue[k].action, name |-> queue[k].name],
                          InfoOf(m.heap, queue[k].hd)), queue, k + 1)

\* the records the kernel has written for the handle hd
RecordsOf(q, hd) == SelectSeq(q, LAMBDA e : e.wd = hd)

\* run: GetQueuedCompletionStatus returns the records of one handle: they are
\* put into the queue, the items queued before are handled, the handle is
\* armed again
CompleteWin(hd) ==
    /\ dpc = "read"
    /\ cpc # "panic"
    /\ RecordsOf(kq, hd) # <<>>
    /\ InfoOf(heap, hd) # 0
    /\ buf' = SubSeq(parse(buf, RecordsOf(kq, hd), 1), Len(buf) + 1,
                     Len(parse(buf, RecordsOf(kq, hd), 1)))
    /\ UNCHANGED <<wfd, signal, fs, dpc, cpc, ret, left, closes, tlast>>
    /\ Commit(handleAll([MWin EXCEPT !.kq = SelectSeq(kq, LAMBDA e : e.wd # hd)], buf, 1))

\* run: GetQueuedCompletionStatus times out with items in the queue and
\* nothing in w.signal: every item is handled
TimeoutWin ==
    /\ dpc = "read"
    /\ cpc # "panic"
    /\ signal = 0
    /\ buf # <<>>
    /\ buf' = <<>>
    /\ UNCHANGED <<wfd, signal, fs, dpc, cpc, ret, left, closes, tlast>>
    /\ Commit(handleAll(MWin, buf, 1))

\* a file is created
FsCreateWin(p) ==
    /\ Change
    /\ p \notin fs \cup DirPaths
    /\ Parent(p) \in fs
    /\ fs' = fs \cup {p}
    /\ UNCHANGED <<wfd, signal, dpc, buf, cpc, ret, closes, tlast>>
    /\ Commit([MWin EXCEPT !.kq = NotifyWin(kw, kq, Parent(p), "create", Base(p))])

\* a file is written
FsWriteWin(p) ==
    /\ Change
    /\ p \in fs \ DirPaths
    /\ UNCHANGED <<wfd, signal, fs, dpc, buf, cpc, ret, closes, tlast>>
    /\ Commit([MWin EXCEPT !.kq = NotifyWin(kw, kq, Parent(p), "modify", Base(p))])

\* a file is removed
FsRemoveWin(p) ==
    /\ Change
    /\ p \in fs \ DirPaths
    /\ fs' = fs \ {p}
    /\ UNCHANGED <<wfd, signal, dpc, buf, cpc, ret, closes, tlast>>
    /\ Commit([MWin EXCEPT !.kq = NotifyWin(kw, kq, Parent(p), "delete", Base(p))])

WinRunInit ==
    /\ tree = NilRef
    /\ heap = [i \in InfoIds |-> NoInfo]
    /\ fdmap = [wd \in Wds |-> 0]
    /\ wfd = 1
    /\ signal = 0
    /\ fs \in {S \in SUBSET FSPaths : T \in S /\ \A p \in S : p = T \/ Parent(p) \in S}
    /\ kw = [wd \in Wds |-> NoWatch]
    /\ kq = <<>>
    /\ dpc = "read"
    /\ buf = <<>>
    /\ cpc = "idle"
    /\ ret = [op |-> "none", val |-> ""]
    /\ events = <<>>
    /\ errors = <<>>
    /\ hist = NoHist
    /\ left = [calls |-> 1, fs |-> MaxWinChanges]
    /\ closes = [ok |-> FALSE, after |-> FALSE]
    /\ tlast = NoTreeOp

NextWinRun ==
    \/ \E p \in LoadPaths, r \in BOOLEAN : LoadWin(p, r)
    \/ \E hd \in Wds : CompleteWin(hd)
    \/ TimeoutWin
    \/ \E p \in FSPaths : FsCreateWin(p)
    \/ \E p \in FSPaths : FsWriteWin(p)
    \/ \E p \in FSPaths : FsRemoveWin(p)

SpecWinRun == WinRunInit /\ [][NextWinRun]_vars

(***************************************************************************)
(* The kqueue backend: every entry is watched through an open descriptor;  *)
(* kw holds the descriptors, kq the events the kernel has pending          *)
(***************************************************************************)
MKq == [M EXCEPT !.os = "kqueue"]

\* most calls the caller makes in a run of the kqueue backend
MaxKqCalls == 3

\* kqueue: the visitor of unload's deleteAll over the ids it is handed: [m, reload]
RECURSIVE UnloadAllKq(_, _, _, _, _, _)
UnloadAllKq(m, list, k, path, recursive, reload) ==
    LET Removed(r) ==
            UnloadAllKq(IF r.err # "" THEN Fail(r.m, r.err) ELSE r.m, list, k + 1, path,
                        recursive, reload)
        Visit(i) ==
            IF ~recursive /\ "explicit" \in m.heap[i].flags /\ m.heap[i].path # path
            THEN UnloadAllKq(m, list, k + 1, path, recursive, Append(reload, i))
            ELSE Removed(IF m.heap[i].watch # 0 THEN rm(m, i) ELSE [m |-> m, err |-> ""])
    IN IF k > Len(list) THEN [m |-> m, reload |-> reload] ELSE Visit(list[k])

\* kqueue: unload's "for _, nfo = range reload { w.tree.insert(nfo) }"
RECURSIVE InsertAll(_, _, _)
InsertAll(m, reload, k) ==
    LET Put(r) ==
            InsertAll([m EXCEPT !.tree = r.tree, !.obs = @ \cup {m.heap[reload[k]].path}],
                      reload, k + 1)
    IN IF k > Len(reload) THEN m ELSE Put(insert(m.tree, m.heap, reload[k]))

\* kqueue: watcher.unload(path, recursive) on an open watcher: [m, err]
unloadKq(m, path, recursive) ==
    LET Reinserted(err, u) == [m |-> InsertAll(u.m, u.reload, 1), err |-> err]
        Deleted(err, m1, d) ==
            Reinserted(err, UnloadAllKq([m1 EXCEPT !.tree = d.tree,
                                                   !.obs = {p \in @ : ~InSubtree(path, p)}],
                                        d.list, 1, path, recursive, <<>>))
        Cleared(err, m1) == Deleted(err, m1, deleteAll(m1.tree, m1.heap, path))
        Removed(nfo, r) == Cleared(r.err, [r.m EXCEPT !.heap[nfo].watch = 0])
        Found(nfo) ==
            IF nfo = 0 \/ m.heap[nfo].watch = 0 THEN [m |-> m, err |-> ""]
            ELSE Removed(nfo, rm(m, nfo))
    IN Found(get(m.tree, m.heap, path))

\* kqueue: watcher.handle(mask, nfo) for one event e of info nfo
handleKq(m, e, nfo) ==
    LET path == m.heap[nfo].path
        Deleted(d) ==
            EmitAll(ForgetAll([m EXCEPT !.tree = d.tree,
                                        !.obs = {p \in @ : ~InSubtree(path, p)}], d.list, 1),
                    "Delete", d.list, 1)
        Loaded(r) == IF r.err \notin {"", "ENOENT"} THEN Fail(r.m, r.err) ELSE r.m
    IN IF e.kind = "delete" THEN Deleted(deleteAll(m.tree, m.heap, path))
       ELSE IF m.heap[nfo].isDir
       THEN Loaded(loadImpl(m, path, m.heap[nfo].flags \cap {"recurse"}, "Create", FALSE))
       ELSE IF ~Exists(path) THEN m
       ELSE Emit(m, "Modify", nfo)

\* kqueue: the kernel keeps one pending event per descriptor and ors the
\* fflags into it; handle looks at the delete flags first
EnqueueKq(q, fd, kind) ==
    IF \E k \in 1..Len(q) : q[k].wd = fd
    THEN [k \in 1..Len(q) |->
            IF q[k].wd = fd /\ kind = "delete" THEN Ev(fd, "delete", <<>>) ELSE q[k]]
    ELSE Append(q, Ev(fd, kind, <<>>))

\* kqueue: an event for the descriptor that is open on path, if there is one
NotifyKq(k, q, path, kind) ==
    LET Noted(fd) == IF fd = 0 THEN q ELSE EnqueueKq(q, fd, kind)
    IN Noted(WatchOf(k, path))

\* kqueue: Watcher.Load(path, recursive)
LoadKq(path, recursive) ==
    /\ Idle
    /\ Call
    /\ UNCHANGED <<wfd, signal, fs, dpc, buf, cpc, closes, tlast>>
    /\ IF wfd = -1
       THEN /\ ret' = [op |-> "load", val |-> "ErrClosed", path |-> path, recursive |-> recursive]
            /\ Commit(Api(MKq, path, FALSE, ""))
       ELSE LET Done(r) ==
                    /\ ret' = [op |-> "load", val |-> r.err, path |-> path,
                               recursive |-> recursive]
                    /\ Commit(Api(r.m, path, recursive, r.err))
            IN Done(loadImpl(MKq, path,
                             {"explicit"} \cup (IF recursive THEN {"recurse"} ELSE {}),
                             "", FALSE))

\* kqueue: Watcher.Unload(path, recursive)
UnloadKq(path, recursive) ==
    /\ Idle
    /\ Call
    /\ UNCHANGED <<wfd, signal, fs, dpc, buf, cpc, closes, tlast>>
    /\ IF wfd = -1
       THEN /\ ret' = [op |-> "unload", val |-> "ErrClosed", path |-> path,
                       recursive |-> recursive]
            /\ Commit(Api(MKq, path, FALSE, ""))
       ELSE LET Done(r) ==
                    /\ ret' = [op |-> "unload", val |-> r.err, path |-> path,
                               recursive |-> recursive]
                    /\ Commit(Api(r.m, path, FALSE, ""))
            IN Done(unloadKq(MKq, path, recursive))

\* kqueue: run's Kevent returns the pending events
ReadKq ==
    /\ dpc = "read"
    /\ kq # <<>>
    /\ buf' = kq
    /\ dpc' = "handle"
    /\ UNCHANGED <<wfd, signal, fs, cpc, ret, left, closes, tlast>>
    /\ Commit([MKq EXCEPT !.kq = <<>>])

\* kqueue: run looks the next event up in the fd map and handles it
HandleKq ==
    /\ dpc = "handle"
    /\ buf # <<>>
    /\ buf' = Tail(buf)
    /\ dpc' = IF Tail(buf) = <<>> THEN "read" ELSE "handle"
    /\ UNCHANGED <<wfd, signal, fs, cpc, ret, left, closes, tlast>>
    /\ LET Known(e, nfo) ==
               IF nfo = 0 \/ heap[nfo].watch = 0 THEN Fail(MKq, "unknown watch")
               ELSE handleKq(MKq, e, nfo)
       IN Commit(Known(Head(buf), fdmap[Head(buf).wd]))

\* kqueue: a file or an empty directory is created: NOTE_WRITE on its directory
FsCreateKq(p) ==
    /\ Change
    /\ p \notin fs
    /\ Parent(p) \in fs
    /\ fs' = fs \cup {p}
    /\ UNCHANGED <<wfd, signal, dpc, buf, cpc, ret, closes, tlast>>
    /\ Commit([MKq EXCEPT !.kq = NotifyKq(kw, kq, Parent(p), "write")])

\* kqueue: a file is written: NOTE_WRITE on the file
FsWriteKq(p) ==
    /\ Change
    /\ p \in fs \ (DirPaths \cup Links)
    /\ UNCHANGED <<wfd, signal, fs, dpc, buf, cpc, ret, closes, tlast>>
    /\ Commit([MKq EXCEPT !.kq = NotifyKq(kw, kq, p, "write")])

\* kqueue: a file or an empty directory is removed: NOTE_DELETE on it,
\* NOTE_WRITE on its directory; a descriptor open on it stays open
FsRemoveKq(p) ==
    /\ Change
    /\ p \in fs
    /\ p # T
    /\ \A q \in fs : InSubtree(p, q) => q = p
    /\ fs' = fs \ {p}
    /\ UNCHANGED <<wfd, signal, dpc, buf, cpc, ret, closes, tlast>>
    /\ LET Gone(fd) ==
               Commit([MKq EXCEPT !.kq = NotifyKq(kw, NotifyKq(kw, kq, p, "delete"),
                                                  Parent(p), "write"),
                                  !.kw = IF fd = 0 THEN kw
                                         ELSE [kw EXCEPT ![fd].st = "unlinked"]])
       IN Gone(WatchOf(kw, p))

\* the paths the kqueue runs use
KqPaths == {T, Ta, Taf, Tal}

KqInit ==
    /\ tree = NilRef
    /\ heap = [i \in InfoIds |-> NoInfo]
    /\ fdmap = [wd \in Wds |-> 0]
    /\ wfd = 1
    /\ signal = 0
    /\ fs \in {S \in SUBSET KqPaths : T \in S /\ \A p \in S : p = T \/ Parent(p) \in S}
    /\ kw = [wd \in Wds |-> NoWatch]
    /\ kq = <<>>
    /\ dpc = "read"
    /\ buf = <<>>
    /\ cpc = "idle"
    /\ ret = [op |-> "none", val |-> "", path |-> <<>>, recursive |-> FALSE]
    /\ events = <<>>
    /\ errors = <<>>
    /\ hist = NoHist
    /\ left = [calls |-> MaxKqCalls, fs |-> MaxFsOps]
    /\ closes = [ok |-> FALSE, after |-> FALSE]
    /\ tlast = NoTreeOp

NextKq ==
    \/ \E p \in KqPaths \cap DirPaths, r \in BOOLEAN : LoadKq(p, r)
    \/ \E p \in KqPaths \cap DirPaths, r \in BOOLEAN : UnloadKq(p, r)
    \/ ReadKq
    \/ HandleKq
    \/ \E p \in KqPaths : FsCreateKq(p)
    \/ \E p \in KqPaths : FsWriteKq(p)
    \/ \E p \in KqPaths : FsRemoveKq(p)

SpecKq == KqInit /\ [][NextKq]_vars

(***************************************************************************)
(* The inotify backend with a caller that, after at most one other call,   *)
(* calls Load(P, r) and then at once Unload(P, r) or the same Load again;  *)
(* tlast holds what the index and the kernel's watches were before the     *)
(* first Load                                                              *)
(***************************************************************************)
\* the entries of the index with their flags, and the paths the kernel watches
Snapshot ==
    [entries |-> {<<heap[i].path, heap[i].flags>> : i \in Ids(tree)},
     watches |-> {kw[wd].path : wd \in {x \in Wds : kw[x].st # "free"}}]

\* the Load of the pair, on an open watcher and successful
PairLoad(path, recursive) ==
    /\ tlast.op = "none"
    /\ wfd = 1
    /\ LoadCall(path, recursive)
    /\ ret'.val = ""
    /\ tlast' = [op |-> "pairLoad", root |-> path, before |-> Snapshot, list |-> <<>>,
                 dup |-> recursive]

\* the same recursive Load again, before anything else happens
PairReload ==
    /\ tlast.op = "pairLoad"
    /\ tlast.dup
    /\ LoadCall(tlast.root, TRUE)
    /\ tlast' = [tlast EXCEPT !.op = "pairReload"]

\* the Unload of the pair, before anything else happens
PairUnload ==
    /\ tlast.op = "pairLoad"
    /\ UnloadCall(tlast.root, tlast.dup)
    /\ tlast' = [tlast EXCEPT !.op = "pairUnload"]

PairInit ==
    /\ tree = NilRef
    /\ heap = [i \in InfoIds |-> NoInfo]
    /\ fdmap = [wd \in Wds |-> 0]
    /\ wfd = 1
    /\ signal = 0
    /\ fs \in {S \in SUBSET FSPaths : T \in S /\ \A p \in S : p = T \/ Parent(p) \in S}
    /\ kw = [wd \in Wds |-> NoWatch]
    /\ kq = <<>>
    /\ dpc = "read"
    /\ buf = <<>>
    /\ cpc = "idle"
    /\ ret = [op |-> "none", val |-> ""]
    /\ events = <<>>
    /\ errors = <<>>
    /\ hist = NoHist
    /\ left = [calls |-> MaxCalls + 1, fs |-> MaxFsOps]
    /\ closes = [ok |-> FALSE, after |-> FALSE]
    /\ tlast = NoTreeOp

\* before the pair the watcher runs as in Spec, the caller making at most
\* one call
NextPair ==
    \/ tlast.op = "none" /\ Next /\ left'.calls >= MaxCalls
    \/ \E p \in LoadPaths, r \in BOOLEAN : PairLoad(p, r)
    \/ PairReload
    \/ PairUnload

SpecPair == PairInit /\ [][NextPair]_vars

(***************************************************************************)
(* The path index on its own: insert and deleteAll applied to any paths    *)
(***************************************************************************)
TreeInit ==
    /\ Init
    /\ fs = {T}

\* insert of a new info for p, flagged as loadImpl's walker flags it
TInsert(p) ==
    LET i == FreeId(heap)
        Stored(dup, c) ==
            /\ tree' = c.tree
            /\ heap' = c.heap
            /\ tlast' = [op |-> "insert", root |-> p, before |-> PathsIn(tree, heap),
                         list |-> <<>>, dup |-> dup]
        Inserted(h1, r) == Stored(r.dup # 0, Canon(r.tree, IF r.dup = 0 THEN h1 ELSE heap, fdmap))
        Made(h1) == Inserted(h1, insert(tree, h1, i))
    IN /\ Made([heap EXCEPT ![i] = IF Filter(p) THEN newInfo(p)
                                    ELSE [newInfo(p) EXCEPT !.flags = {"ignored"}]])
       /\ UNCHANGED <<fdmap, wfd, signal, fs, kw, kq, dpc, buf, cpc, ret, events, errors,
                      hist, left, closes>>

TDeleteAll(p) ==
    LET Stored(r, c) ==
            /\ tree' = c.tree
            /\ heap' = c.heap
            /\ tlast' = [op |-> "deleteAll", root |-> p, before |-> PathsIn(tree, heap),
                         list |-> PathSeq(heap, r.list), dup |-> FALSE]
        Deleted(r) == Stored(r, Canon(r.tree, heap, fdmap))
    IN /\ Deleted(deleteAll(tree, heap, p))
       /\ UNCHANGED <<fdmap, wfd, signal, fs, kw, kq, dpc, buf, cpc, ret, events, errors,
                      hist, left, closes>>

TreeNext == \E p \in TreePaths : TInsert(p) \/ TDeleteAll(p)

SpecTree == TreeInit /\ [][TreeNext]_vars

(***************************************************************************)
(* The path index is built by inserts and deleteAlls and then walked once, *)
(* with a visitor that answers SkipDir for the paths of S                  *)
(***************************************************************************)
\* the visitor answers SkipDir for no path or for one path
SkipSets == {{}} \cup {{p} : p \in TreePaths}

\* tree.walk(root, f)
TWalk(root, S) ==
    LET Done(r) ==
            tlast' = [op |-> "walk", root |-> root, before |-> PathsIn(tree, heap),
                      list |-> r.seen, dup |-> FALSE, skips |-> S, err |-> r.err]
    IN /\ tlast.op # "walk"
       /\ Done(walk(tree, heap, root, S))
       /\ UNCHANGED <<tree, heap, fdmap, wfd, signal, fs, kw, kq, dpc, buf, cpc, ret, events,
                      errors, hist, left, closes>>

WalkNext ==
    \/ tlast.op # "walk" /\ TreeNext
    \/ \E root \in TreePaths, S \in SkipSets : TWalk(root, S)

SpecWalk == TreeInit /\ [][WalkNext]_vars

\* C2: deleteAll(path, f) on a stored path hands f the entry at path and every
\* stored entry below it, each once, in walk order with path first, and none
\* of them is stored afterwards
DeleteAllSubtree ==
    (tlast.op = "deleteAll" /\ tlast.root \in tlast.before) =>
        LET sub == {p \in tlast.before : InSubtree(tlast.root, p)}
        IN /\ tlast.list = WalkSort(sub)
           /\ \A p \in sub : get(tree, heap, p) = 0

\* deleteAll reached a directory that had stored content below it
DeleteAllSubtreeWitness ==
    /\ tlast.op = "deleteAll"
    /\ tlast.root \in tlast.before
    /\ Len(tlast.list) >= 3

\* C3: deleteAll(path, f) leaves every entry outside the subtree of path
\* stored and never hands it to f
DeleteAllFrame ==
    (tlast.op = "deleteAll") =>
        \A p \in tlast.before :
            ~InSubtree(tlast.root, p) =>
                /\ get(tree, heap, p) # 0
                /\ \A k \in 1..Len(tlast.list) : tlast.list[k] # p

(***************************************************************************)
(* The claims about the watcher                                            *)
(***************************************************************************)
\* C1: Get(P) returns an entry if and only if P was inserted by a Load scan or
\* a Create event, was not removed since by a Delete event or an Unload that
\* covers it, and is not ignored
GetIffObserved ==
    \A p \in TreePaths : (Get(p) # 0) <=> (p \in hist.observed /\ Filter(p))

\* the step of run that handles one event of the buffer
HandleStep == dpc = "handle" /\ buf' # buf

\* the paths of the Delete events for entries that are not ignored
DeletesOf(evs) ==
    LET d == SelectSeq(evs, LAMBDA e : e.ev = "Delete" /\ ~e.ign)
    IN [k \in 1..Len(d) |-> d[k].path]

\* C4: when run handles a deletion, the event sink gets one Delete for every
\* non-ignored entry that leaves the index, in walk order, and no entry leaves
\* the index in the handling of an event without a Delete for it
HandleDeletes ==
    [][HandleStep =>
          DeletesOf(events') = WalkSort(Visible(tree, heap) \ PathsIn(tree', heap'))]_vars

\* nothing is queued, read or half done
Quiescent == kq = <<>> /\ buf = <<>> /\ dpc = "read" /\ cpc = "idle"

\* C5: at a quiescent point after Load(T, true) and changes of the file system
\* below T, Traverse(T) visits every path with a Create delivered and no
\* Delete delivered after it
TraverseSeesCreated ==
    (Quiescent /\ hist.api = "load") => hist.created \subseteq Range(Traverse(T))

\* C6: no event is delivered for an ignored entry, and Get and Traverse
\* neither return nor visit one
NoEventForIgnored ==
    /\ \A k \in 1..Len(events) : ~events[k].ign
    /\ \A p \in TreePaths : Get(p) # 0 => ~Ignored(heap, Get(p))
    /\ \A p \in TreePaths : \A q \in Range(Traverse(p)) : ~Ignored(heap, get(tree, heap, q))

\* no Close has gone further than its ErrClosed check
Open == wfd = 1 /\ signal = 0 /\ dpc \in {"read", "handle"} /\ cpc = "idle"

\* C7: while the watcher is open the fd map and the index agree: an id of the
\* map resolves to an entry that is in the index and whose watch is that id,
\* and every entry of the index that has a watch is in the map under its id
FdmapAgrees ==
    Open =>
        /\ \A wd \in Wds : fdmap[wd] # 0 =>
               fdmap[wd] \in Ids(tree) /\ heap[fdmap[wd]].watch = wd
        /\ \A i \in Ids(tree) : heap[i].watch # 0 => fdmap[heap[i].watch] = i

\* C8: the kernel watch of an entry that left the index is released, and
\* released once: every watch the kernel still has belongs to an entry of the
\* index, and no release was answered with an error
WatchReleased ==
    Unlocked =>
        /\ \A wd \in Wds : kw[wd].st # "free" =>
               \E i \in Ids(tree) : heap[i].watch = wd
        /\ "EINVAL" \notin Range(errors)
        /\ ret.val # "EINVAL"

\* C9: once Close has returned and run has gone through the teardown, no
\* watch handle the watcher installed is still open
CloseReleasesAll ==
    (closes.ok /\ dpc = "exited") => \A wd \in Wds : kw[wd].st = "free"

\* C10: a Close that is called after a Close has returned nil returns ErrClosed
CloseTwice ==
    (ret.op = "close" /\ closes.after) => ret.val = "ErrClosed"

\* a step in which the caller's Load or Unload call runs
LoadOrUnloadStep == left'.calls < left.calls /\ ret'.op \in {"load", "unload"}

\* C11: once a Close has returned nil, every Load and Unload returns ErrClosed
\* and leaves the index and the installed watches as they were
ClosedRejects ==
    [][(closes.ok /\ LoadOrUnloadStep) =>
          /\ ret'.val = "ErrClosed"
          /\ PathsIn(tree', heap') = PathsIn(tree, heap)
          /\ kw' = kw]_vars

\* C12: a Close call never waits for the run goroutine: it is never blocked
\* in its send on the signal channel, from where only a receive by run lets
\* it go on
CloseNeverWaits == ~(cpc = "closeSend" /\ signal > 0)

\* a step in which a non-recursive Unload of the caller runs on a path that is
\* in the index with a watch, and returns nil
UnloadFlatStep ==
    /\ left'.calls < left.calls
    /\ ret'.op = "unload"
    /\ ~ret'.recursive
    /\ ret'.val = ""
    /\ get(tree, heap, ret'.path) # 0
    /\ heap[get(tree, heap, ret'.path)].watch # 0

\* C13: a non-recursive Unload of an ancestor preserves every explicit
\* descendant: it is in the index afterwards with an open watch, and so is
\* what was loaded below it according to its own flags (everything below it if
\* it has the recurse flag, its children otherwise)
UnloadKeepsExplicit ==
    [][UnloadFlatStep =>
          \A i \in Ids(tree) :
              LET d == heap[i].path
                  j == get(tree', heap', d)
              IN (/\ "explicit" \in heap[i].flags
                  /\ d \in fs
                  /\ IsPrefix(ret'.path \o <<SEP>>, d)
                  /\ heap[i].watch # 0
                  /\ kw[heap[i].watch].st = "live") =>
                     /\ j # 0
                     /\ heap'[j].watch # 0
                     /\ kw'[heap'[j].watch].st = "live"
                     /\ kw'[heap'[j].watch].path = d
                     /\ fdmap'[heap'[j].watch] = j
                     /\ \A q \in PathsIn(tree, heap) \cap fs :
                            (/\ IsPrefix(d \o <<SEP>>, q)
                             /\ "recurse" \in heap[i].flags \/ Parent(q) = d)
                                => get(tree', heap', q) # 0]_vars

\* a path the caller has unloaded, itself or with an ancestor, and that is not
\* at or below a root the caller still has loaded below that unloaded path
Unwatched(q) ==
    \E p \in hist.unloaded :
        /\ InSubtree(p, q)
        /\ ~\E d \in hist.loaded : IsPrefix(p \o <<SEP>>, d) /\ InSubtree(d, q)

\* C14: after Unload(P, r) has returned and until P is loaded again, no event
\* is delivered for P or a path below P, except below an explicit root that
\* the Unload preserved
NoEventAfterUnload == \A k \in 1..Len(events) : ~Unwatched(events[k].path)

\* C15: Load(P, r) followed at once by Unload(P, r) leaves the entries of the
\* index, with their flags, and the installed watches as they were before
\* the Load
PairRestores == tlast.op = "pairUnload" => Snapshot = tlast.before

\* C16: Load(P, true) twice in succession: the second call changes neither
\* the index, its entries' flags and watches, the fd map nor the kernel's
\* watches, and neither call delivers an event
LoadIdempotent ==
    [][/\ (tlast.op = "pairLoad" /\ tlast'.op = "pairReload") =>
              /\ tree' = tree
              /\ heap' = heap
              /\ fdmap' = fdmap
              /\ kw' = kw
              /\ events' = <<>>
       /\ (tlast.op = "none" /\ tlast'.op = "pairLoad") => events' = <<>>]_vars

\* the second Load(P, true) has returned nil on an index that holds a
\* directory with content and watches
LoadIdempotentWitness ==
    /\ tlast.op = "pairReload"
    /\ ret.val = ""
    /\ Cardinality(Ids(tree)) >= 3
    /\ \E wd \in Wds : kw[wd].st = "live" /\ fdmap[wd] # 0

\* the filter accepts q and every directory between root and q
AcceptedBelow(root, q) ==
    \A k \in (Len(root) + 1)..Len(q) :
        (k = Len(q) \/ q[k + 1] = SEP) => Filter(SubSeq(q, 1, k))

\* the entry of q is in the index, not ignored, and if q is a directory it
\* has a watch that the kernel and the fd map hold for it
LoadedAt(q) ==
    LET Entry(i) ==
            /\ i # 0
            /\ ~Ignored(heap, i)
            /\ q \in DirPaths =>
                   /\ heap[i].watch # 0
                   /\ kw[heap[i].watch].st = "live"
                   /\ kw[heap[i].watch].path = q
                   /\ fdmap[heap[i].watch] = i
    IN Entry(get(tree, heap, q))

\* C17: after Load(P, true) has returned nil without an error from the
\* kernel, every accepted file and directory below P whose ancestors up to P
\* are accepted is in the index, the directories with an installed watch,
\* whatever was loaded before the call
LoadCovers ==
    (tlast.op = "pairLoad" /\ tlast.dup /\ ret.val = "" /\ errors = <<>>) =>
        \A q \in fs :
            (IsPrefix(tlast.root \o <<SEP>>, q) /\ AcceptedBelow(tlast.root, q)) => LoadedAt(q)

\* the walked root is an entry of the index that is not ignored
WalkedRoot ==
    /\ tlast.op = "walk"
    /\ get(tree, heap, tlast.root) # 0
    /\ ~Ignored(heap, get(tree, heap, tlast.root))

\* the non-ignored entries at or below the walked root
WalkedSet == {p \in Visible(tree, heap) : InSubtree(tlast.root, p)}

\* C18: Walk(R, visitor) with a visitor that returns nil calls it on exactly
\* the non-ignored entries at R or below, in walk order: a directory before
\* what is under it, the names of a directory in byte order
WalkInOrder ==
    (WalkedRoot /\ tlast.skips = {}) =>
        /\ tlast.list = WalkSort(WalkedSet)
        /\ tlast.err = ""

\* a walk from /t over a/d, a.b and ab below it and an ignored entry
WalkInOrderWitness ==
    /\ WalkedRoot
    /\ tlast.skips = {}
    /\ tlast.root = T
    /\ {Tad, Tadotb, Tab, Th} \subseteq tlast.before

\* the visitor answers SkipDir for one entry below the root that the walk
\* would visit: the directory or file D
SkipAt(D) ==
    /\ WalkedRoot
    /\ tlast.skips = {D}
    /\ D # tlast.root
    /\ D \in WalkedSet

\* C19: when the visitor returns SkipDir for a directory D below the root, no
\* entry below D is visited and every other entry is visited, in walk order
SkipDirPrunes ==
    \A D \in TreePaths \cap DirPaths :
        SkipAt(D) =>
            tlast.list = WalkSort({p \in WalkedSet : ~IsPrefix(D \o <<SEP>>, p)})

\* the visitor skipped /t/a, which has an entry below it and the entries
\* a.b and ab next to it
SkipDirPrunesWitness ==
    /\ SkipAt(Ta)
    /\ tlast.root = T
    /\ {Tad, Tadotb, Tab} \subseteq tlast.before

\* C20: when the visitor returns SkipDir for a non-directory entry, nothing
\* is pruned: every entry is visited as if it had returned nil, and the walk
\* returns nil
SkipFileHarmless ==
    \A F \in TreePaths \ DirPaths :
        SkipAt(F) =>
            /\ tlast.list = WalkSort(WalkedSet)
            /\ tlast.err = ""

\* the step of run that handles a create for a child of a watched directory
\* whose path is in the index already
HandleKnownCreate ==
    /\ HandleStep
    /\ Head(buf).kind = "create"
    /\ fdmap[Head(buf).wd] # 0
    /\ get(tree, heap, Join(heap[fdmap[Head(buf).wd]].path, Head(buf).name)) # 0

\* C21: when run handles a create for a path that is in the index already it
\* does nothing: no event is delivered, and the index, its entries with their
\* flags and watches, the fd map and the kernel's watches stay as they are
KnownCreateIgnored ==
    [][HandleKnownCreate =>
          /\ events' = <<>>
          /\ tree' = tree
          /\ heap' = heap
          /\ fdmap' = fdmap
          /\ kw' = kw]_vars

\* the step of run that handles an event for a path that is not in the
\* index: handle calls loadImpl with the event Create
HandleLoads ==
    /\ HandleStep
    /\ Head(buf).kind \in {"create", "modify"}
    /\ fdmap[Head(buf).wd] # 0
    /\ get(tree, heap, Join(heap[fdmap[Head(buf).wd]].path, Head(buf).name)) = 0

\* C22: when run loads a path that appeared, the events it delivers are
\* Creates, one for every non-ignored path the load inserts and no other, in
\* walk order: the directory itself first, then what is below it
CreatesInWalkOrder ==
    [][HandleLoads =>
          /\ \A k \in 1..Len(events') : events'[k].ev = "Create"
          /\ [k \in 1..Len(events') |-> events'[k].path] =
                 WalkSort(Visible(tree', heap') \ PathsIn(tree, heap))]_vars

\* run has loaded the directory /t/a that appeared with the file f in it
CreatesInWalkOrderWitness ==
    /\ dpc \in {"read", "handle"}
    /\ Len(events) = 2
    /\ events[1].ev = "Create" /\ events[1].path = Ta
    /\ events[2].ev = "Create" /\ events[2].path = Taf

\* C23: events reach the event sink one at a time, in steps of run that
\* handle one event of the kernel, and for any single path in the order in
\* which the kernel produced the events they stem from: no event delivered
\* for a path stems from an older event of the kernel than the last one
\* delivered for that path
EventsInOrder ==
    [][/\ events' # <<>> => HandleStep
       /\ \A k \in 1..Len(events') : events'[k].n <= hist.last[events'[k].path]]_vars

\* run has delivered a Modify for a path for which it delivered a Create
\* before, each for an event of the kernel of its own
EventsInOrderWitness ==
    /\ hist.stamped
    /\ events # <<>>
    /\ events[1].ev = "Modify"
    /\ events[1].path \in hist.created
    /\ events[1].n < MaxCalls + MaxFsOps - 1

\* C24: when run comes to an overflow event of the kernel, the error sink
\* receives ErrOverflow
OverflowReported ==
    [][(HandleStep /\ Head(buf).kind = "overflow") => "ErrOverflow" \in Range(errors')]_vars

\* a step of the goroutine that calls Load, Unload or Close
CallerStep == left'.calls < left.calls \/ (cpc = "closeSend" /\ cpc' # "closeSend")

\* C25: Context.Filter, Context.Handle and Context.Error are called by the run
\* goroutine only: a step of a Load, Unload or Close call hands nothing to the
\* event sink or the error sink and does not call the filter
CallbacksOnRun ==
    [][CallerStep => (events' = <<>> /\ errors' = <<>> /\ ~hist'.filtered)]_vars

\* kqueue: the step of run that handles the write event of the directory in
\* which the link /t/a/l was created: the directory is in the index with a
\* watch, the link exists and is not in the index yet
HandleLinkCreated ==
    /\ HandleStep
    /\ Head(buf).kind = "write"
    /\ fdmap[Head(buf).wd] # 0
    /\ heap[fdmap[Head(buf).wd]].watch # 0
    /\ heap[fdmap[Head(buf).wd]].path = Parent(Tal)
    /\ get(tree, heap, Parent(Tal)) = fdmap[Head(buf).wd]
    /\ Tal \in fs
    /\ get(tree, heap, Tal) = 0

\* C26: when a symbolic link whose target does not exist is created in a
\* watched directory, the event sink receives one Create for the path of the
\* link and no other event for it, and the error sink receives nothing
LinkCreated ==
    [][HandleLinkCreated =>
          /\ Cardinality({k \in 1..Len(events') : events'[k].path = Tal}) = 1
          /\ \A k \in 1..Len(events') : events'[k].path = Tal => events'[k].ev = "Create"
          /\ errors' = <<>>]_vars

\* C27: Load of a relative path, "." and a name without a separator among
\* them, returns nil, ErrClosed, ErrNotDir or an error of the operating
\* system: the call never ends in a panic
LoadNeverPanics == ~(ret.op = "load" /\ ret.val = "panic")

\* the paths that are stored after the last operation on the index if the
\* index is a map keyed by path: insert adds its path, deleteAll of a stored
\* path removes that path and what is below it and nothing else
StoredAsMap ==
    IF tlast.op = "insert" THEN tlast.before \cup {tlast.root}
    ELSE IF tlast.root \in tlast.before
         THEN {p \in tlast.before : ~InSubtree(tlast.root, p)}
         ELSE tlast.before

\* C28: after every insert and deleteAll, get(p) is non-nil exactly for the
\* paths that were inserted and not removed since, also when a stored path is
\* a prefix of another, and insert returns the stored entry exactly when its
\* path was stored already
IndexIsMap ==
    tlast.op \in {"insert", "deleteAll"} =>
        /\ \A p \in TreePaths : (get(tree, heap, p) # 0) <=> (p \in StoredAsMap)
        /\ tlast.op = "insert" => (tlast.dup <=> tlast.root \in tlast.before)

\* the path was given to Load with recursive=true and is still in the index
RecursiveRoot(root) ==
    LET i == get(tree, heap, root)
    IN i # 0 /\ {"explicit", "recurse"} \subseteq heap[i].flags

\* run handles the Create of a directory that exists, is not in the index
\* and lies below a root loaded with recursive=true
HandleTreeAppears ==
    /\ HandleStep
    /\ Head(buf).kind = "create"
    /\ fdmap[Head(buf).wd] # 0
    /\ LET path == Join(heap[fdmap[Head(buf).wd]].path, Head(buf).name)
       IN /\ path \in fs \cap DirPaths
          /\ get(tree, heap, path) = 0
          /\ \E root \in LoadPaths : RecursiveRoot(root) /\ InSubtree(root, path)
                                      /\ AcceptedBelow(root, path)

\* C29: when a directory tree appears at any depth below a root loaded with
\* recursive=true, also inside a directory that the scan of the Load found,
\* and the kernel refuses no watch, all accepted descendants of the new
\* directory at every depth enter the index and get a Create
RecurseInherited ==
    [][HandleTreeAppears =>
          LET path == Join(heap[fdmap[Head(buf).wd]].path, Head(buf).name)
          IN errors' = <<>> =>
                 \A q \in fs :
                     (InSubtree(path, q) /\ AcceptedBelow(path, q)) =>
                         /\ get(tree', heap', q) # 0
                         /\ \E k \in 1..Len(events') :
                                events'[k].ev = "Create" /\ events'[k].path = q]_vars

\* C30: the event sink gets no Create for a path that entered the index by
\* the scan of a Load or got a Create before, unless a Delete for the path
\* was delivered in between, whatever the loads, unloads and changes of the
\* file system
CreateOnce ==
    [][\A k \in 1..Len(events') :
           events'[k].ev = "Create" =>
               events'[k].path \notin Created(hist.entered, SubSeq(events', 1, k - 1), 1)]_vars

\* C31: while a Traverse runs, no Load, Unload, Close or reaction of run
\* changes which entries the index holds, and when the root is a non-ignored
\* entry the visitor has seen, at the end, the non-ignored entries that were
\* in the index at and below the root when Traverse took the read lock, in
\* walk order
TraverseIsolated ==
    [][/\ tlast.op = "traverse" =>
              /\ PathsIn(tree', heap') = PathsIn(tree, heap)
              /\ Visible(tree', heap') = Visible(tree, heap)
       /\ (tlast.op = "traverse" /\ tlast'.op = "traversed" /\ tlast.root \in tlast.before) =>
              tlast'.list = WalkSort({p \in tlast.before : InSubtree(tlast.root, p)})]_vars

\* a Traverse has seen an entry and has more to see while run holds an
\* event that makes it take the write lock
TraverseIsolatedWitness ==
    /\ tlast.op = "traverse"
    /\ Len(tlast.list) >= 1
    /\ Cardinality({p \in tlast.before : InSubtree(tlast.root, p)}) >= 3
    /\ dpc = "handle"
    /\ buf # <<>>
    /\ Head(buf).wd # 0
    /\ fdmap[Head(buf).wd] # 0
    /\ Writes(Head(buf), fdmap[Head(buf).wd])

\* C32: once a Close has returned nil, under fair scheduling run eventually
\* runs the function close sent and exits, whether the index was empty, held
\* watched entries or held entries without a watch
CloseStopsRun == closes.ok ~> (dpc = "exited")

\* run takes the records of the handle hd off the kernel's buffer
CompleteStep(hd) ==
    /\ dpc = "read"
    /\ RecordsOf(kq, hd) # <<>>
    /\ kq' = SelectSeq(kq, LAMBDA e : e.wd # hd)

\* C33: in the queue of the Windows run a change record is dropped only if
\* an item of the same info and name is queued and neither the record nor
\* any queued item of that name is a delete: a create or modify that comes
\* after a queued delete of the same name is put into the queue
QueueKeepsAfterDelete ==
    [][\A hd \in Wds :
           CompleteStep(hd) =>
               \A k \in 1..Len(RecordsOf(kq, hd)) :
                   LET q    == parse(buf, SubSeq(RecordsOf(kq, hd), 1, k - 1), 1)
                       item == qitem(RecordsOf(kq, hd)[k])
                   IN found(q, item) =>
                          /\ ~isDelete(item.action)
                          /\ \E j \in 1..Len(q) : q[j].hd = item.hd /\ q[j].name = item.name
                          /\ \A j \in 1..Len(q) :
                                 (q[j].hd = item.hd /\ q[j].name = item.name) =>
                                     ~isDelete(q[j].action)]_vars
====
